SPECIFICATION Spec
CONSTANTS
  WifiStrings <- MCWifi
  MqttStrings <- MCMqtt
  Values = {1, 2}
  DefaultPort = 1
  MaxCommands = 3
  MaxFaults = 1
INVARIANTS
  SaidIsSaved
