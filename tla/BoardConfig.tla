---------------------------- MODULE BoardConfig ----------------------------
(***************************************************************************)
(* A board's configuration: the copy in memory that the console's commands *)
(* change (uwb_config.c, net_config.c), the keys in flash they are saved   *)
(* under (uwb_store.c, net_store.c), the boot that loads them in any order *)
(* (main.c), and what the running threads take from it: the loops a        *)
(* snapshot when they start, the uplink and the shell the live copy.       *)
(*                                                                         *)
(* A command assigns its fields and then saves its keys, one by one.  On   *)
(* an anchor the loop, which preempts the shell, changes the position too, *)
(* for a SETPOS.  Every key can fail to be read or written, and the power  *)
(* can go at any point.  A value is 0 when it is the default, or empty.    *)
(* The console takes commands when the settings are loaded.                *)
(***************************************************************************)
EXTENDS Naturals, Sequences

CONSTANTS
  WifiStrings,   \* ssid and psk, in the order they are saved in
  MqttStrings,   \* user and mqttpass, which may be empty
  Values,        \* values other than the default
  DefaultPort,   \* NET_MQTT_PORT_DEFAULT
  MaxCommands,   \* bound: commands of console and gateway
  MaxFaults      \* bound: reads and writes of flash that fail

ASSUME ConfigAssumption ==
  /\ WifiStrings \in Seq(STRING) /\ MqttStrings \in Seq(STRING)
  /\ 0 \notin Values /\ 1 \in Values /\ DefaultPort \in Values
  /\ MaxCommands \in Nat /\ MaxFaults \in Nat

VARIABLES
  cfg,      \* the live configuration
  flash,    \* the stored keys
  left,     \* the keys that the boot has still to load
  thread,   \* the loop that runs
  online,   \* the uplink runs
  used,     \* what the running threads work with
  todo,     \* what the shell's command has still to do
  rec,      \* the record it is saving
  failed,   \* one of its saves failed
  doing,    \* the fields it changes
  said,     \* the fields whose last change was not reported as lost
  raced,    \* a SETPOS came in the middle of a command on the position
  commands, faults

shellVars == <<todo, rec, failed, doing>>
bootVars == <<left, thread, online>>
vars == <<cfg, flash, bootVars, used, shellVars, said, raced, commands, faults>>

\* A position is written coordinate by coordinate; two parts suffice to tear it.
Position == {"x", "yz", "valid"}
Anchor == {"mode", "id", "ant_tx", "ant_rx"} \union Position
Wifi == {WifiStrings[i] : i \in DOMAIN WifiStrings}
Mqtt == {MqttStrings[i] : i \in DOMAIN MqttStrings}
Net == Wifi \union Mqtt \union {"broker", "port"}
Field == Anchor \union Net

\* The position is one record; every other field has a key of its own.
Key == (Field \ Position) \union {"pos"}
FieldsOf(k) == IF k = "pos" THEN Position ELSE {k}
KeyOf(f) == IF f \in Position THEN "pos" ELSE f
NoRecord == <<>>

\* No two settings are saved under one name.
ASSUME NamesAssumption ==
  (Wifi \union Mqtt) \intersect (Anchor \union {"broker", "port", "pos"}) = {}

\* net_config_set_defaults
NetDefault(f) == IF f = "port" THEN DefaultPort ELSE 0

Default(f) == IF f \in Net THEN NetDefault(f) ELSE 0
Defaults == [f \in Field |-> Default(f)]

Init ==
  /\ cfg = Defaults
  /\ flash = [k \in Key |-> NoRecord]
  /\ left = {} /\ thread = "none" /\ online = FALSE
  /\ used = Defaults
  /\ todo = <<>> /\ rec = NoRecord /\ failed = FALSE /\ doing = {}
  /\ said = Field /\ raced = FALSE
  /\ commands = 0 /\ faults = 0

-----------------------------------------------------------------------------
(***************************************************************************)
(* The boot.                                                               *)
(***************************************************************************)

Fault == faults < MaxFaults /\ faults' = faults + 1

\* The setters that the stored values go through.
Accepts(k, r, c) ==
  CASE k \in Wifi -> r[k] # 0
    [] k = "broker" -> r[k] # 0 /\ c.port # 0
    [] k = "port" -> r[k] # 0
    [] k = "pos" -> r.valid # 0
    [] OTHER -> TRUE

Reboot ==
  /\ cfg' = Defaults
  /\ left' = {k \in Key : flash[k] # NoRecord}
  /\ thread' = "none" /\ online' = FALSE
  /\ used' = Defaults
  /\ todo' = <<>> /\ rec' = NoRecord /\ failed' = FALSE /\ doing' = {}
  /\ said' = Field
  /\ UNCHANGED <<flash, raced, commands, faults>>

Load(k) ==
  /\ k \in left /\ left' = left \ {k}
  /\ cfg' = IF Accepts(k, flash[k], cfg)
            THEN [f \in Field |-> IF f \in FieldsOf(k) THEN flash[k][f] ELSE cfg[f]]
            ELSE cfg
  /\ UNCHANGED <<flash, thread, online, used, shellVars, said, raced, commands, faults>>

\* A key that cannot be read is reported and keeps its default; so do all that
\* are left if the settings cannot be loaded at all.
LoadFails(lost) ==
  /\ lost # {} /\ Fault
  /\ left' = left \ lost
  /\ said' = said \ UNION {FieldsOf(k) : k \in lost}
  /\ UNCHANGED <<cfg, flash, thread, online, used, shellVars, raced, commands>>

\* main(): the loop of the mode, and the uplink if the gateway has a network.
\* A gateway without a position refuses to run; its uplink does not.
Start ==
  /\ left = {} /\ thread = "none"
  /\ used' = cfg
  /\ thread' = CASE cfg.mode = 0 -> "slave"
                 [] cfg.mode # 0 /\ cfg.valid # 0 -> "gateway"
                 [] OTHER -> "refused"
  /\ online' = (cfg.mode # 0 /\ cfg["ssid"] # 0 /\ cfg.broker # 0 /\ cfg.port # 0)
  /\ UNCHANGED <<cfg, flash, left, shellVars, said, raced, commands, faults>>

Boot ==
  \/ Reboot
  \/ \E k \in left : Load(k) \/ LoadFails({k})
  \/ LoadFails(left)
  \/ Start

-----------------------------------------------------------------------------
(***************************************************************************)
(* The console.                                                            *)
(***************************************************************************)

Set(f, v) == [op |-> "set", field |-> f, value |-> v]
Save(k) == [op |-> "save", key |-> k]
Sets(fs, v) == [i \in DOMAIN fs |-> Set(fs[i], v[fs[i]])]
Saves(ks) == [i \in DOMAIN ks |-> Save(ks[i])]

\* A command changes the fields fs to what v says, in their order, and saves
\* the keys ks.
Begin(fs, v, ks) ==
  /\ left = {} /\ thread # "none" /\ todo = <<>>
  /\ commands < MaxCommands /\ commands' = commands + 1
  /\ todo' = Sets(fs, v) \o Saves(ks)
  /\ failed' = FALSE
  /\ doing' = {fs[i] : i \in DOMAIN fs}
  /\ said' = said \ doing'
  /\ UNCHANGED <<cfg, flash, bootVars, used, rec, raced, faults>>

SetOne(f, v) == Begin(<<f>>, [g \in Field |-> v], <<f>>)
SetAnt(v) == Begin(<<"ant_tx", "ant_rx">>, [g \in Field |-> v], <<"ant_tx", "ant_rx">>)
SetPos(v) == Begin(<<"x", "yz", "valid">>, [g \in Field |-> IF g = "valid" THEN 1 ELSE v], <<"pos">>)
SetBroker(v) == Begin(<<"broker", "port">>, [g \in Field |-> v], <<"broker", "port">>)

ResetAnchor ==
  Begin(<<"mode", "id", "ant_tx", "ant_rx", "x", "yz", "valid">>, Defaults,
        <<"mode", "id", "ant_tx", "ant_rx", "pos">>)

ResetNet ==
  LET fs == WifiStrings \o <<"broker", "port">> \o MqttStrings IN Begin(fs, Defaults, fs)

Assign ==
  /\ todo # <<>> /\ Head(todo).op = "set"
  /\ cfg' = [cfg EXCEPT ![Head(todo).field] = Head(todo).value]
  /\ todo' = Tail(todo)
  /\ UNCHANGED <<flash, bootVars, used, rec, failed, doing, said, raced, commands, faults>>

\* The record is read from the live configuration, then written.
CopyRecord ==
  /\ todo # <<>> /\ Head(todo).op = "save" /\ rec = NoRecord
  /\ rec' = [f \in FieldsOf(Head(todo).key) |-> cfg[f]]
  /\ UNCHANGED <<cfg, flash, bootVars, used, todo, failed, doing, said, raced, commands, faults>>

Outcome_LastOnly(written) == ~written

\* All saves are attempted; the first failure is the command's.
Outcome(written) == failed \/ ~written

WriteRecord(written) ==
  /\ todo # <<>> /\ Head(todo).op = "save" /\ rec # NoRecord
  /\ IF written THEN UNCHANGED faults ELSE Fault
  /\ flash' = IF written THEN [flash EXCEPT ![Head(todo).key] = rec] ELSE flash
  /\ failed' = Outcome(written)
  /\ todo' = Tail(todo) /\ rec' = NoRecord
  /\ said' = IF todo' = <<>> /\ ~failed' THEN said \union doing ELSE said
  /\ doing' = IF todo' = <<>> THEN {} ELSE doing
  /\ UNCHANGED <<cfg, bootVars, used, raced, commands>>

\* `apos' asks for the mode of the live configuration.
RequireGateway ==
  /\ thread # "none" /\ todo = <<>>
  /\ used' = [used EXCEPT !["mode"] = cfg.mode]
  /\ UNCHANGED <<cfg, flash, bootVars, shellVars, said, raced, commands, faults>>

Shell ==
  \/ \E v \in {0, 1} : SetOne("mode", v)
  \/ \E f \in {"id"} \union Mqtt, v \in Values \union {0} : SetOne(f, v)
  \/ \E f \in Wifi, v \in Values : SetOne(f, v)
  \/ \E v \in Values : SetAnt(v) \/ SetPos(v) \/ SetBroker(v)
  \/ ResetAnchor \/ ResetNet
  \/ Assign \/ CopyRecord
  \/ \E written \in BOOLEAN : WriteRecord(written)
  \/ RequireGateway

-----------------------------------------------------------------------------
(***************************************************************************)
(* The running threads.                                                    *)
(***************************************************************************)

\* handle_setpos() in one step: the loop preempts the shell.
SetPosFrame(v, written) ==
  /\ thread = "slave"
  /\ commands < MaxCommands /\ commands' = commands + 1
  /\ IF written THEN UNCHANGED faults ELSE Fault
  /\ LET at(c) == [c EXCEPT !.x = v, !.yz = v, !.valid = 1] IN
     /\ cfg' = at(cfg) /\ used' = at(used)
     /\ flash' = IF written
                 THEN [flash EXCEPT !.pos = [f \in Position |-> cfg'[f]]]
                 ELSE flash
  /\ said' = IF written THEN said \union (Position \ doing) ELSE said \ Position
  /\ raced' = (raced \/ doing \intersect Position # {})
  /\ UNCHANGED <<bootVars, shellVars>>

\* The uplink associates, or connects to the broker.
Uses(fs) ==
  /\ online
  /\ used' = [f \in Field |-> IF f \in fs THEN cfg[f] ELSE used[f]]
  /\ UNCHANGED <<cfg, flash, bootVars, shellVars, said, raced, commands, faults>>

Associate == Uses(Wifi)
Connect == Uses(Mqtt \union {"broker", "port", "id"})

Threads ==
  \/ \E v \in Values, written \in BOOLEAN : SetPosFrame(v, written)
  \/ Associate \/ Connect

Next == Boot \/ Shell \/ Threads

Spec == Init /\ [][Next]_vars

-----------------------------------------------------------------------------
(***************************************************************************)
(* Properties.                                                             *)
(***************************************************************************)

\* What the next boot makes of a field.
Boots(f) == IF flash[KeyOf(f)] = NoRecord THEN Default(f) ELSE flash[KeyOf(f)][f]

\* A change is lost only if that was reported: a field whose last change was
\* not is the same in memory and for the next boot ("there is no `I set it but
\* forgot to save' failure", anchor_shell.c:8-9), whatever the order the keys
\* are loaded in (net_store.c:66-69).  A SETPOS in the middle of a command on
\* the position is excepted.
SaidIsSaved ==
  left = {} =>
    \A f \in said : cfg[f] = Boots(f) \/ (raced /\ f \in Position)

\* "changes take effect on the next boot" (anchor_shell.c:9-11, net_shell.c:6-7):
\* but for a surveyed position, what the threads work with is what it was when
\* they started.
ChangesWaitForBoot ==
  [][thread # "none" /\ thread' # "none" =>
       \A f \in Field \ Position : used'[f] = used[f]]_vars
=============================================================================
