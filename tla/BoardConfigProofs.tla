-------------------------- MODULE BoardConfigProofs --------------------------
(***************************************************************************)
(* The configuration of a board, for any strings and values, any number of *)
(* commands and faults, and every order of the keys.                       *)
(*                                                                         *)
(* A field whose last change is not known to be lost agrees with what the  *)
(* next boot makes of it, or its key is still to be loaded (SaidOK).  That *)
(* lasts because a command takes its fields out of what is said until it   *)
(* ends, and by then has saved the key of each (SavesOK): it makes all its *)
(* assignments first, and saves what it changes (CommandOK).  A record     *)
(* that the boot will reject says the defaults (Whole), which is what the  *)
(* fields have when it is loaded (BootOK); for the position this needs     *)
(* that it is changed whole, and so that no SETPOS has raced (CfgOK).      *)
(***************************************************************************)
EXTENDS BoardConfig, SequenceTheorems, TLAPS

\* What a field, and an operation of a command, may be.
Vals == Values \union {0}
Ops == [op : {"set"}, field : Field, value : Vals] \union [op : {"save"}, key : Key]

\* Operation i sets field f; it saves key k.
SetsField(i, f) == i \in DOMAIN todo /\ todo[i].op = "set" /\ todo[i].field = f
SavesKey(i, k) == i \in DOMAIN todo /\ todo[i].op = "save" /\ todo[i].key = k

\* Field f is v, or will be when the command has made its assignments.
WillBe(f, v) ==
  /\ \A i : SetsField(i, f) => todo[i].value = v
  /\ cfg[f] = v \/ \E i : SetsField(i, f)

\* The command has still to save key k.
WillSave(k) == \E i : SavesKey(i, k)

\* The next boot makes of f what it is in memory, a raced position excepted.
Agrees(f) == cfg[f] = Boots(f) \/ (raced /\ f \in Position)

\* The boot loads the keys that are stored, into fields that have their defaults.
BootOK ==
  /\ left \subseteq Key
  /\ left # {} => thread = "none"
  /\ \A k \in left :
       flash[k] # NoRecord /\ \A f \in FieldsOf(k) : cfg[f] = Default(f)

\* A command makes all its assignments before it saves, and saves what it changes.
CommandOK ==
  /\ todo \in Seq(Ops) /\ doing \subseteq Field
  /\ thread = "none" => todo = <<>>
  /\ todo = <<>> => doing = {}
  /\ \A i, j \in DOMAIN todo : i < j /\ todo[i].op = "save" => todo[j].op = "save"
  /\ \A i, f : SetsField(i, f) =>
       /\ f \in doing /\ (f = "port" => todo[i].value # 0)
       /\ \A g \in doing : WillSave(KeyOf(g))
  /\ \A i, k : SavesKey(i, k) => FieldsOf(k) \subseteq doing

\* What is saved, and is not to be saved again, agrees.
SavesOK == ~failed => \A f \in doing : WillSave(KeyOf(f)) \/ Agrees(f)

\* A position that is not valid is the default one.
PositionOK(valid, x, yz) == valid = 0 => x = 0 /\ yz = 0

\* A record that the boot would reject is of the defaults.
Whole(k, r) ==
  /\ DOMAIN r = FieldsOf(k)
  /\ k = "port" => r["port"] # 0
  /\ k = "pos" /\ ~raced => PositionOK(r["valid"], r["x"], r["yz"])

CfgOK ==
  /\ DOMAIN cfg = Field /\ cfg["port"] # 0
  /\ ~raced => \E v, x, yz : /\ PositionOK(v, x, yz)
                             /\ WillBe("valid", v) /\ WillBe("x", x) /\ WillBe("yz", yz)

FlashOK ==
  DOMAIN flash = Key /\ \A k \in Key : flash[k] # NoRecord => Whole(k, flash[k])

\* The record that is being saved is what is in memory.
RecOK ==
  /\ rec # NoRecord => todo # <<>>
  /\ \A k : rec # NoRecord /\ SavesKey(1, k) =>
       /\ DOMAIN rec = FieldsOf(k)
       /\ \A f \in FieldsOf(k) : rec[f] = cfg[f] \/ (raced /\ f \in Position)
  /\ \A f : SetsField(1, f) => rec = NoRecord

SaidOK ==
  /\ said \subseteq Field /\ said \intersect doing = {}
  /\ \A f \in said : KeyOf(f) \in left \/ Agrees(f)

CInv == BootOK /\ CommandOK /\ SavesOK /\ CfgOK /\ FlashOK /\ RecOK /\ SaidOK

-----------------------------------------------------------------------------
(* Fields and keys *)

\* Every field is saved under one key, and no field is called like the record.
LEMMA KeyFacts ==
  /\ "pos" \notin Field /\ "pos" \in Key /\ FieldsOf("pos") = Position
  /\ \A f \in Field : KeyOf(f) \in Key /\ f \in FieldsOf(KeyOf(f))
  /\ \A k \in Key : FieldsOf(k) \subseteq Field /\ \A f \in FieldsOf(k) : KeyOf(f) = k
  /\ \A k \in Key : FieldsOf(k) # {}
  /\ Position \subseteq Field /\ "port" \in Field /\ "port" \notin Position
BY NamesAssumption DEF Field, Key, KeyOf, FieldsOf, Position, Anchor, Net

\* Every default is 0 but the port's, which is not.
LEMMA DefaultFacts ==
  /\ \A f \in Field : f # "port" => Default(f) = 0
  /\ Default("port") = DefaultPort /\ DefaultPort # 0 /\ DefaultPort \in Vals /\ 0 \in Vals
  /\ \A f \in Field : Default(f) \in Vals
  /\ \A f \in Position : f # "port" /\ f \in Field
<1>1. DefaultPort # 0 /\ DefaultPort \in Vals /\ 0 \in Vals
  BY ConfigAssumption DEF Vals
<1>2. "port" \in Net
  BY DEF Net
<1> QED
  BY <1>1, <1>2, KeyFacts DEF Default, NetDefault

\* A record that is rejected on boot is of the defaults, which the fields have then.
LEMMA RejectedIsDefault ==
  ASSUME NEW k \in Key, NEW r, Whole(k, r), NEW c, c["port"] # 0, ~Accepts(k, r, c),
         NEW f \in FieldsOf(k)
  PROVE  r[f] = Default(f) \/ (raced /\ f \in Position)
<1>1. CASE k = "pos"
  <2>1. r["valid"] = 0
    BY <1>1, NamesAssumption DEF Accepts, Anchor
  <2>2. CASE ~raced
    <3>1. r["x"] = 0 /\ r["yz"] = 0
      BY <1>1, <2>1, <2>2 DEF Whole, PositionOK
    <3> QED
      BY <1>1, <2>1, <3>1, KeyFacts, DefaultFacts DEF Position
  <2> QED
    BY <1>1, <2>2, KeyFacts
<1>2. CASE k # "pos"
  <2>1. f = k /\ f \in Field
    BY <1>2, KeyFacts DEF FieldsOf
  <2>2. k # "port"
    BY NamesAssumption DEF Accepts, Whole
  <2>3. r[k] = 0
    BY <1>2, <2>2 DEF Accepts
  <2> QED
    BY <2>1, <2>2, <2>3, DefaultFacts
<1> QED
  BY <1>1, <1>2

-----------------------------------------------------------------------------
(* The boot *)

LEMMA InitCInv ==
  ASSUME Init
  PROVE  CInv
<1>1. /\ cfg = Defaults /\ flash = [k \in Key |-> NoRecord] /\ left = {} /\ thread = "none"
      /\ todo = <<>> /\ rec = NoRecord /\ doing = {} /\ said = Field
  BY DEF Init
<1>2. \A i, f : ~SetsField(i, f) /\ ~SavesKey(i, f)
  BY <1>1 DEF SetsField, SavesKey
<1>3. \A f \in Field : cfg[f] = Default(f) /\ Boots(f) = Default(f)
  BY <1>1, KeyFacts DEF Defaults, Boots
<1>4. BootOK /\ CommandOK /\ SavesOK /\ FlashOK /\ RecOK
  BY <1>1, <1>2 DEF BootOK, CommandOK, SavesOK, FlashOK, RecOK
<1>5. CfgOK
  <2>1. DOMAIN cfg = Field /\ cfg["port"] # 0
    BY <1>1, <1>3, KeyFacts, DefaultFacts DEF Defaults
  <2>2. cfg["valid"] = 0 /\ cfg["x"] = 0 /\ cfg["yz"] = 0
    BY <1>3, DefaultFacts DEF Position
  <2>3. WillBe("valid", 0) /\ WillBe("x", 0) /\ WillBe("yz", 0) /\ PositionOK(0, 0, 0)
    BY <1>2, <2>2 DEF WillBe, PositionOK
  <2> QED
    BY <2>1, <2>3 DEF CfgOK
<1>6. SaidOK
  BY <1>1, <1>3 DEF SaidOK, Agrees
<1> QED
  BY <1>4, <1>5, <1>6 DEF CInv

\* After a power cut memory has the defaults, and every stored key is to be loaded.
LEMMA RebootCInv ==
  ASSUME CInv, Reboot
  PROVE  CInv'
<1>1. /\ cfg' = Defaults /\ left' = {k \in Key : flash[k] # NoRecord} /\ thread' = "none"
      /\ todo' = <<>> /\ rec' = NoRecord /\ doing' = {} /\ said' = Field
      /\ UNCHANGED <<flash, raced>>
  BY DEF Reboot
<1>2. \A i, f : ~SetsField(i, f)' /\ ~SavesKey(i, f)'
  BY <1>1 DEF SetsField, SavesKey
<1>3. \A f \in Field : cfg'[f] = Default(f)
  BY <1>1 DEF Defaults
<1>4. BootOK'
  BY <1>1, <1>3, KeyFacts DEF BootOK
<1>5. CommandOK' /\ SavesOK' /\ RecOK'
  BY <1>1, <1>2 DEF CommandOK, SavesOK, RecOK
<1>6. FlashOK'
  BY <1>1 DEF CInv, FlashOK, Whole
<1>7. CfgOK'
  <2>1. DOMAIN cfg' = Field /\ cfg'["port"] # 0
    BY <1>1, <1>3, KeyFacts, DefaultFacts DEF Defaults
  <2>2. cfg'["valid"] = 0 /\ cfg'["x"] = 0 /\ cfg'["yz"] = 0
    BY <1>3, DefaultFacts DEF Position
  <2>3. WillBe("valid", 0)' /\ WillBe("x", 0)' /\ WillBe("yz", 0)' /\ PositionOK(0, 0, 0)
    BY <1>2, <2>2 DEF WillBe, PositionOK
  <2> QED
    BY <2>1, <2>3 DEF CfgOK
<1>8. SaidOK'
  <2>1. ASSUME NEW f \in Field PROVE KeyOf(f) \in left' \/ Agrees(f)'
    BY <1>1, <1>3, KeyFacts DEF Agrees, Boots
  <2> QED
    BY <1>1, <2>1 DEF SaidOK
<1> QED
  BY <1>4, <1>5, <1>6, <1>7, <1>8 DEF CInv

\* The console is idle while keys are to be loaded.
LEMMA LoadingFacts ==
  ASSUME CInv, left # {}
  PROVE  /\ todo = <<>> /\ doing = {} /\ rec = NoRecord /\ thread = "none"
         /\ \A i, f : ~SetsField(i, f) /\ ~SavesKey(i, f)
BY DEF CInv, BootOK, CommandOK, RecOK, SetsField, SavesKey

\* A key that is loaded makes its fields what it says, or leaves them the
\* defaults that it says; it touches no other field.
LEMMA LoadCInv ==
  ASSUME CInv, NEW k \in left, Load(k)
  PROVE  CInv'
<1>1. /\ left' = left \ {k} /\ UNCHANGED <<flash, thread, todo, rec, failed, doing, said, raced>>
      /\ cfg' = IF Accepts(k, flash[k], cfg)
                THEN [f \in Field |-> IF f \in FieldsOf(k) THEN flash[k][f] ELSE cfg[f]]
                ELSE cfg
  BY DEF Load, shellVars
<1>2. /\ todo = <<>> /\ doing = {} /\ rec = NoRecord /\ thread = "none"
      /\ \A i, f : ~SetsField(i, f) /\ ~SavesKey(i, f)
  BY LoadingFacts
<1>3. /\ k \in Key /\ flash[k] # NoRecord /\ Whole(k, flash[k])
      /\ cfg["port"] # 0 /\ DOMAIN cfg = Field
  BY DEF CInv, BootOK, FlashOK, CfgOK
<1>4. \A i, f : ~SetsField(i, f)' /\ ~SavesKey(i, f)'
  BY <1>1, <1>2 DEF SetsField, SavesKey
<1>5. DOMAIN cfg' = Field /\ \A f \in Field \ FieldsOf(k) : cfg'[f] = cfg[f]
  BY <1>1, <1>3
<1>6. \A f \in FieldsOf(k) : f \in Field /\ KeyOf(f) = k /\ cfg[f] = Default(f)
  BY <1>3, KeyFacts DEF CInv, BootOK
<1>7. ASSUME NEW f \in FieldsOf(k) PROVE cfg'[f] = flash[k][f] \/ (raced /\ f \in Position)
  <2>1. CASE Accepts(k, flash[k], cfg)
    BY <1>1, <1>6, <2>1
  <2>2. CASE ~Accepts(k, flash[k], cfg)
    <3>1. flash[k][f] = Default(f) \/ (raced /\ f \in Position)
      BY <1>3, <2>2, RejectedIsDefault
    <3> QED
      BY <1>1, <1>6, <2>2, <3>1
  <2> QED
    BY <2>1, <2>2
<1>8. BootOK'
  <2>1. ASSUME NEW j \in left', NEW f \in FieldsOf(j) PROVE cfg'[f] = Default(f)
    <3>1. j \in left /\ j \in Key /\ j # k /\ f \in Field /\ KeyOf(f) = j
      BY <1>1, KeyFacts DEF CInv, BootOK
    <3>2. f \notin FieldsOf(k)
      BY <1>6, <3>1
    <3> QED
      BY <1>5, <3>1, <3>2 DEF CInv, BootOK
  <2> QED
    BY <1>1, <2>1 DEF CInv, BootOK
<1>9. CommandOK' /\ SavesOK' /\ RecOK'
  BY <1>1, <1>2, <1>4 DEF CInv, CommandOK, SavesOK, RecOK
<1>10. FlashOK'
  BY <1>1 DEF CInv, FlashOK, Whole
<1>11. CfgOK'
  <2>1. cfg'["port"] # 0
    <3>1. CASE "port" \in FieldsOf(k)
      <4>1. k = "port"
        BY <1>6, <3>1, KeyFacts DEF KeyOf
      <4>2. cfg'["port"] = flash[k]["port"]
        BY <1>7, <3>1, KeyFacts
      <4> QED
        BY <1>3, <4>1, <4>2 DEF Whole
    <3>2. CASE "port" \notin FieldsOf(k)
      BY <1>3, <1>5, <3>2, KeyFacts
    <3> QED
      BY <3>1, <3>2
  <2>2. ASSUME ~raced' PROVE PositionOK(cfg'["valid"], cfg'["x"], cfg'["yz"])
    <3>1. ~raced
      BY <1>1, <2>2
    <3>2. CASE k = "pos"
      <4>1. /\ cfg'["valid"] = flash[k]["valid"] /\ cfg'["x"] = flash[k]["x"]
            /\ cfg'["yz"] = flash[k]["yz"]
        BY <1>7, <3>1, <3>2, KeyFacts DEF Position
      <4> QED
        BY <1>3, <3>1, <3>2, <4>1 DEF Whole
    <3>3. CASE k # "pos"
      <4>1. \A f \in Position : f \in Field /\ f \notin FieldsOf(k)
        BY <1>6, <3>3, KeyFacts DEF KeyOf
      <4>2. cfg'["valid"] = cfg["valid"] /\ cfg'["x"] = cfg["x"] /\ cfg'["yz"] = cfg["yz"]
        BY <1>5, <4>1 DEF Position
      <4>3. PICK v, x, yz : PositionOK(v, x, yz) /\ WillBe("valid", v) /\ WillBe("x", x)
                            /\ WillBe("yz", yz)
        BY <3>1 DEF CInv, CfgOK
      <4>4. cfg["valid"] = v /\ cfg["x"] = x /\ cfg["yz"] = yz
        BY <1>2, <4>3 DEF WillBe
      <4> QED
        BY <4>2, <4>3, <4>4
    <3> QED
      BY <3>2, <3>3
  <2>3. \A f : WillBe(f, cfg[f])'
    BY <1>4 DEF WillBe
  <2> QED
    BY <1>5, <2>1, <2>2, <2>3 DEF CfgOK
<1>12. SaidOK'
  <2>1. ASSUME NEW f \in said PROVE KeyOf(f) \in left' \/ Agrees(f)'
    <3>1. f \in Field /\ (KeyOf(f) \in left \/ Agrees(f))
      BY DEF CInv, SaidOK
    <3>2. CASE f \in FieldsOf(k)
      <4>1. Boots(f)' = flash[k][f]
        BY <1>1, <1>3, <1>6, <3>2 DEF Boots
      <4> QED
        BY <1>1, <1>7, <3>2, <4>1 DEF Agrees
    <3>3. CASE f \notin FieldsOf(k)
      <4>1. KeyOf(f) # k
        BY <3>1, <3>3, KeyFacts
      <4>2. Agrees(f) => Agrees(f)'
        BY <1>1, <1>5, <3>1, <3>3 DEF Agrees, Boots
      <4> QED
        BY <1>1, <3>1, <4>1, <4>2
    <3> QED
      BY <3>2, <3>3
  <2> QED
    BY <1>1, <2>1 DEF CInv, SaidOK
<1> QED
  BY <1>8, <1>9, <1>10, <1>11, <1>12 DEF CInv

\* A key that is not loaded is reported with its fields.
LEMMA LoadFailsCInv ==
  ASSUME CInv, NEW lost \in SUBSET left, LoadFails(lost)
  PROVE  CInv'
<1>1. /\ left' = left \ lost /\ said' = said \ UNION {FieldsOf(k) : k \in lost}
      /\ UNCHANGED <<cfg, flash, thread, todo, rec, failed, doing, raced>>
  BY DEF LoadFails, shellVars
<1>2. (\A i, f : SetsField(i, f)' <=> SetsField(i, f))
      /\ (\A i, k : SavesKey(i, k)' <=> SavesKey(i, k))
  BY <1>1 DEF SetsField, SavesKey
<1>3. (\A f, v : WillBe(f, v)' <=> WillBe(f, v)) /\ (\A k : WillSave(k)' <=> WillSave(k))
      /\ (\A f : Agrees(f)' <=> Agrees(f))
  BY <1>1, <1>2 DEF WillBe, WillSave, Agrees, Boots
<1>4. BootOK'
  BY <1>1 DEF CInv, BootOK
<1>5. CommandOK' /\ SavesOK'
  BY <1>1, <1>2, <1>3 DEF CInv, CommandOK, SavesOK
<1>6. CfgOK' /\ FlashOK' /\ RecOK'
  BY <1>1, <1>2, <1>3 DEF CInv, CfgOK, FlashOK, Whole, RecOK
<1>7. SaidOK'
  <2>1. ASSUME NEW f \in said' PROVE KeyOf(f) \in left' \/ Agrees(f)
    <3>1. f \in said /\ f \in Field /\ \A k \in lost : f \notin FieldsOf(k)
      BY <1>1 DEF CInv, SaidOK
    <3>2. KeyOf(f) \notin lost
      BY <3>1, KeyFacts
    <3> QED
      BY <1>1, <3>1, <3>2 DEF CInv, SaidOK
  <2> QED
    BY <1>1, <1>3, <2>1 DEF CInv, SaidOK
<1> QED
  BY <1>4, <1>5, <1>6, <1>7 DEF CInv

\* The threads that start, and what they take from memory, change none of it.
LEMMA ReaderCInv ==
  ASSUME CInv, UNCHANGED <<cfg, flash, left, shellVars, said, raced>>,
         thread' = thread \/ (left = {} /\ thread' # "none")
  PROVE  CInv'
<1>1. UNCHANGED <<todo, rec, failed, doing>>
  BY DEF shellVars
<1>2. (\A i, f : SetsField(i, f)' <=> SetsField(i, f))
      /\ (\A i, k : SavesKey(i, k)' <=> SavesKey(i, k))
  BY <1>1 DEF SetsField, SavesKey
<1>3. (\A f, v : WillBe(f, v)' <=> WillBe(f, v)) /\ (\A k : WillSave(k)' <=> WillSave(k))
      /\ (\A f : Agrees(f)' <=> Agrees(f))
  BY <1>1, <1>2 DEF WillBe, WillSave, Agrees, Boots
<1>4. BootOK'
  BY <1>1 DEF CInv, BootOK
<1>5. CommandOK' /\ SavesOK'
  BY <1>1, <1>2, <1>3 DEF CInv, CommandOK, SavesOK
<1>6. CfgOK' /\ FlashOK' /\ RecOK'
  BY <1>1, <1>2, <1>3 DEF CInv, CfgOK, FlashOK, Whole, RecOK
<1>7. SaidOK'
  BY <1>1, <1>3 DEF CInv, SaidOK
<1> QED
  BY <1>4, <1>5, <1>6, <1>7 DEF CInv

-----------------------------------------------------------------------------
(* A command begins *)

\* What the operations of a new command are.
LEMMA BeginFacts ==
  ASSUME NEW fs \in Seq(Field), NEW v, \A i \in DOMAIN fs : v[fs[i]] \in Vals,
         NEW ks \in Seq(Key), todo' = Sets(fs, v) \o Saves(ks)
  PROVE  /\ todo' \in Seq(Ops) /\ Len(fs) \in Nat /\ Len(ks) \in Nat
         /\ Len(todo') = Len(fs) + Len(ks)
         /\ DOMAIN todo' = 1..Len(todo') /\ DOMAIN fs = 1..Len(fs) /\ DOMAIN ks = 1..Len(ks)
         /\ \A i \in DOMAIN fs : todo'[i] = Set(fs[i], v[fs[i]])
         /\ \A i \in DOMAIN todo' : i > Len(fs) =>
              i - Len(fs) \in DOMAIN ks /\ todo'[i] = Save(ks[i - Len(fs)])
         /\ \A j \in DOMAIN ks : Len(fs) + j \in DOMAIN todo' /\ todo'[Len(fs) + j] = Save(ks[j])
<1>1. DOMAIN fs = 1..Len(fs) /\ DOMAIN ks = 1..Len(ks) /\ Len(fs) \in Nat /\ Len(ks) \in Nat
  OBVIOUS
<1>2. Sets(fs, v) \in Seq(Ops) /\ Len(Sets(fs, v)) = Len(fs)
      /\ \A i \in DOMAIN fs : Sets(fs, v)[i] = Set(fs[i], v[fs[i]])
  <2>1. \A i \in DOMAIN fs : Set(fs[i], v[fs[i]]) \in Ops
    BY <1>1 DEF Set, Ops
  <2>2. Sets(fs, v) = [i \in 1..Len(fs) |-> Set(fs[i], v[fs[i]])]
    BY <1>1 DEF Sets
  <2> QED
    BY <1>1, <2>1, <2>2
<1>3. Saves(ks) \in Seq(Ops) /\ Len(Saves(ks)) = Len(ks)
      /\ \A i \in DOMAIN ks : Saves(ks)[i] = Save(ks[i])
  <2>1. \A i \in DOMAIN ks : Save(ks[i]) \in Ops
    BY <1>1 DEF Save, Ops
  <2>2. Saves(ks) = [i \in 1..Len(ks) |-> Save(ks[i])]
    BY <1>1 DEF Saves
  <2> QED
    BY <1>1, <2>1, <2>2
<1> DEFINE a == Sets(fs, v)
           b == Saves(ks)
<1>4. a \in Seq(Ops) /\ b \in Seq(Ops) /\ todo' = a \o b
  BY <1>2, <1>3
<1>5. Len(a) = Len(fs) /\ Len(b) = Len(ks)
  BY <1>2, <1>3
<1> HIDE DEF a, b
<1>6. /\ todo' \in Seq(Ops) /\ Len(todo') = Len(a) + Len(b)
      /\ DOMAIN todo' = 1..Len(todo')
      /\ \A i \in 1..Len(a) : todo'[i] = a[i]
      /\ \A i \in 1..Len(todo') : i > Len(a) => todo'[i] = b[i - Len(a)]
  <2>1. /\ todo' \in Seq(Ops) /\ Len(todo') = Len(a) + Len(b)
        /\ \A i \in 1..(Len(a) + Len(b)) :
             todo'[i] = IF i <= Len(a) THEN a[i] ELSE b[i - Len(a)]
    BY <1>4, ConcatProperties
  <2>2. DOMAIN todo' = 1..Len(todo')
    BY <2>1
  <2> QED
    BY <1>1, <1>5, <2>1, <2>2
<1>7. /\ \A i \in DOMAIN fs : a[i] = Set(fs[i], v[fs[i]])
      /\ \A i \in DOMAIN ks : b[i] = Save(ks[i])
  BY <1>2, <1>3 DEF a, b
<1>8. \A i \in DOMAIN fs : todo'[i] = Set(fs[i], v[fs[i]])
  BY <1>1, <1>5, <1>6, <1>7
<1>9. ASSUME NEW i \in DOMAIN todo', i > Len(fs)
      PROVE  i - Len(fs) \in DOMAIN ks /\ todo'[i] = Save(ks[i - Len(fs)])
  <2>1. i - Len(fs) \in DOMAIN ks
    BY <1>1, <1>5, <1>6, <1>9
  <2>2. todo'[i] = b[i - Len(fs)]
    BY <1>1, <1>5, <1>6, <1>9
  <2> QED
    BY <1>7, <2>1, <2>2
<1>10. ASSUME NEW j \in DOMAIN ks
       PROVE  Len(fs) + j \in DOMAIN todo' /\ todo'[Len(fs) + j] = Save(ks[j])
  <2>1. Len(fs) + j \in DOMAIN todo' /\ Len(fs) + j > Len(fs) /\ Len(fs) + j - Len(fs) = j
    BY <1>1, <1>5, <1>6
  <2> QED
    BY <1>9, <2>1
<1> QED
  BY <1>1, <1>5, <1>6, <1>8, <1>9, <1>10

\* A command is whole if it saves what it changes, and a position as one.
WholeCommand(fs, v, ks) ==
  /\ fs \in Seq(Field) /\ ks \in Seq(Key) /\ ks # <<>>
  /\ \A i \in DOMAIN fs : v[fs[i]] \in Vals /\ (fs[i] = "port" => v["port"] # 0)
  /\ \A i \in DOMAIN fs : \E j \in DOMAIN ks : ks[j] = KeyOf(fs[i])
  /\ \A j \in DOMAIN ks : \A f \in FieldsOf(ks[j]) : \E i \in DOMAIN fs : fs[i] = f
  /\ PositionOK(v["valid"], v["x"], v["yz"])

LEMMA BeginCInv ==
  ASSUME CInv, NEW fs, NEW v, NEW ks, WholeCommand(fs, v, ks), Begin(fs, v, ks)
  PROVE  CInv'
<1>0. /\ fs \in Seq(Field) /\ ks \in Seq(Key) /\ ks # <<>>
      /\ \A i \in DOMAIN fs : v[fs[i]] \in Vals /\ (fs[i] = "port" => v["port"] # 0)
      /\ \A i \in DOMAIN fs : \E j \in DOMAIN ks : ks[j] = KeyOf(fs[i])
      /\ \A j \in DOMAIN ks : \A f \in FieldsOf(ks[j]) : \E i \in DOMAIN fs : fs[i] = f
      /\ PositionOK(v["valid"], v["x"], v["yz"])
  BY DEF WholeCommand
<1>1. /\ left = {} /\ thread # "none" /\ todo = <<>> /\ todo' = Sets(fs, v) \o Saves(ks)
      /\ doing' = {fs[i] : i \in DOMAIN fs} /\ said' = said \ doing' /\ failed' = FALSE
      /\ UNCHANGED <<cfg, flash, left, thread, rec, raced>>
  BY DEF Begin, bootVars
<1>2. /\ todo' \in Seq(Ops) /\ Len(fs) \in Nat /\ Len(ks) \in Nat
      /\ Len(todo') = Len(fs) + Len(ks)
      /\ DOMAIN todo' = 1..Len(todo') /\ DOMAIN fs = 1..Len(fs) /\ DOMAIN ks = 1..Len(ks)
      /\ \A i \in DOMAIN fs : todo'[i] = Set(fs[i], v[fs[i]])
      /\ \A i \in DOMAIN todo' : i > Len(fs) =>
           i - Len(fs) \in DOMAIN ks /\ todo'[i] = Save(ks[i - Len(fs)])
      /\ \A j \in DOMAIN ks : Len(fs) + j \in DOMAIN todo' /\ todo'[Len(fs) + j] = Save(ks[j])
  BY <1>0, <1>1, BeginFacts
<1>3. \A i \in DOMAIN todo' : \/ i \in DOMAIN fs /\ i <= Len(fs)
                              \/ i > Len(fs) /\ i - Len(fs) \in DOMAIN ks
  BY <1>2
<1>4. \A i \in DOMAIN fs : /\ i \in DOMAIN todo' /\ todo'[i].op = "set"
                           /\ todo'[i].field = fs[i] /\ todo'[i].value = v[fs[i]]
  <2>1. ASSUME NEW i \in DOMAIN fs PROVE i \in DOMAIN todo' /\ todo'[i] = Set(fs[i], v[fs[i]])
    BY <1>2
  <2>2. \A f, w : Set(f, w).op = "set" /\ Set(f, w).field = f /\ Set(f, w).value = w
    BY DEF Set
  <2> QED
    BY <2>1, <2>2
<1>5. /\ \A i \in DOMAIN todo' : i > Len(fs) =>
           todo'[i].op = "save" /\ todo'[i].key = ks[i - Len(fs)]
      /\ \A j \in DOMAIN ks : todo'[Len(fs) + j].op = "save" /\ todo'[Len(fs) + j].key = ks[j]
  BY <1>2 DEF Save
<1>6. ASSUME NEW i, NEW f, SetsField(i, f)'
      PROVE  /\ i \in DOMAIN fs /\ f = fs[i] /\ todo'[i].value = v[f] /\ f \in doing'
             /\ f \in Field /\ v[f] \in Vals /\ (f = "port" => v["port"] # 0)
  <2>1. i \in DOMAIN todo' /\ todo'[i].op = "set" /\ todo'[i].field = f
    BY <1>6 DEF SetsField
  <2>2. i \in DOMAIN fs
    BY <1>3, <1>5, <2>1
  <2> QED
    BY <1>0, <1>1, <1>2, <1>4, <2>1, <2>2
<1>7. ASSUME NEW i, NEW k, SavesKey(i, k)'
      PROVE  i - Len(fs) \in DOMAIN ks /\ k = ks[i - Len(fs)] /\ i > Len(fs)
  <2>1. i \in DOMAIN todo' /\ todo'[i].op = "save" /\ todo'[i].key = k
    BY <1>7 DEF SavesKey
  <2>2. i > Len(fs)
    BY <1>3, <1>4, <2>1
  <2> QED
    BY <1>3, <1>5, <2>1, <2>2
<1>8. ASSUME NEW f \in doing' PROVE WillSave(KeyOf(f))' /\ \E i : SetsField(i, f)'
  <2>1. PICK i \in DOMAIN fs : fs[i] = f
    BY <1>1
  <2>2. PICK j \in DOMAIN ks : ks[j] = KeyOf(f)
    BY <1>0, <2>1
  <2>3. SavesKey(Len(fs) + j, KeyOf(f))'
    BY <1>2, <1>5, <2>2 DEF SavesKey
  <2>4. SetsField(i, f)'
    BY <1>4, <2>1 DEF SetsField
  <2> QED
    BY <2>3, <2>4 DEF WillSave
<1>9. \A f : Agrees(f)' <=> Agrees(f)
  BY <1>1 DEF Agrees, Boots
<1>10. BootOK' /\ FlashOK'
  BY <1>1 DEF CInv, BootOK, FlashOK, Whole
<1>11. doing' \subseteq Field
  BY <1>0, <1>1, <1>2
<1>12. CommandOK'
  <2>1. todo' # <<>>
    <3>1. Len(ks) # 0
      BY <1>0, <1>2
    <3> QED
      BY <1>2, <3>1
  <2>2. ASSUME NEW i \in DOMAIN todo', NEW j \in DOMAIN todo', i < j, todo'[i].op = "save"
        PROVE  todo'[j].op = "save"
    <3>1. i > Len(fs)
      BY <1>3, <1>4, <2>2
    <3>2. j > Len(fs)
      BY <1>2, <2>2, <3>1
    <3> QED
      BY <1>5, <3>2
  <2>3. ASSUME NEW i, NEW f, SetsField(i, f)'
        PROVE  /\ f \in doing' /\ (f = "port" => todo'[i].value # 0)
               /\ \A g \in doing' : WillSave(KeyOf(g))'
    BY <1>6, <1>8, <2>3
  <2>4. ASSUME NEW i, NEW k, SavesKey(i, k)' PROVE FieldsOf(k) \subseteq doing'
    BY <1>0, <1>1, <1>7, <2>4
  <2> QED
    BY <1>1, <1>2, <1>11, <2>1, <2>2, <2>3, <2>4 DEF CommandOK
<1>13. SavesOK' /\ SaidOK'
  BY <1>1, <1>8, <1>9 DEF SavesOK, CInv, SaidOK
<1>14. RecOK'
  BY <1>1 DEF CInv, RecOK
<1>15. CfgOK'
  <2>1. \A f \in doing' : WillBe(f, v[f])'
    BY <1>6, <1>8 DEF WillBe
  <2>2. \A f : f \notin doing' => WillBe(f, cfg[f])'
    BY <1>1, <1>6 DEF WillBe
  <2>3. CASE Position \subseteq doing'
    <3>1. WillBe("valid", v["valid"])' /\ WillBe("x", v["x"])' /\ WillBe("yz", v["yz"])'
      BY <2>1, <2>3 DEF Position
    <3> QED
      BY <1>0, <1>1, <3>1 DEF CInv, CfgOK
  <2>4. CASE ~(Position \subseteq doing')
    <3>1. \A f \in Position : f \notin doing'
      <4>1. \A f \in Position : f \in doing' => \E j \in DOMAIN ks : ks[j] = "pos"
        BY <1>0, <1>1, KeyFacts DEF KeyOf
      <4>2. (\E j \in DOMAIN ks : ks[j] = "pos") => Position \subseteq doing'
        BY <1>0, <1>1, KeyFacts
      <4> QED
        BY <2>4, <4>1, <4>2
    <3>2. WillBe("valid", cfg["valid"])' /\ WillBe("x", cfg["x"])' /\ WillBe("yz", cfg["yz"])'
      BY <2>2, <3>1 DEF Position
    <3>3. ASSUME ~raced PROVE PositionOK(cfg["valid"], cfg["x"], cfg["yz"])
      <4>1. PICK u, x, yz : PositionOK(u, x, yz) /\ WillBe("valid", u) /\ WillBe("x", x)
                            /\ WillBe("yz", yz)
        BY <3>3 DEF CInv, CfgOK
      <4>2. \A i, f : ~SetsField(i, f)
        BY <1>1 DEF SetsField
      <4> QED
        BY <4>1, <4>2 DEF WillBe
    <3> QED
      BY <1>1, <3>2, <3>3 DEF CInv, CfgOK
  <2> QED
    BY <2>3, <2>4
<1> QED
  BY <1>10, <1>12, <1>13, <1>14, <1>15 DEF CInv

\* A command that changes no position saves each field under its own key.
LEMMA OwnKeysCInv ==
  ASSUME CInv, NEW fs \in Seq(Field \ Position), fs # <<>>, NEW v, Begin(fs, v, fs),
         \A i \in DOMAIN fs : v[fs[i]] \in Vals /\ (fs[i] = "port" => v["port"] # 0),
         PositionOK(v["valid"], v["x"], v["yz"])
  PROVE  CInv'
<1>1. \A f \in Field \ Position : f \in Key /\ KeyOf(f) = f /\ FieldsOf(f) = {f}
  BY KeyFacts DEF KeyOf, FieldsOf, Key
<1>2. \A i \in DOMAIN fs : fs[i] \in Field \ Position
  OBVIOUS
<1>3. fs \in Seq(Field) /\ fs \in Seq(Key)
  BY <1>1
<1>4. WholeCommand(fs, v, fs)
  BY <1>1, <1>2, <1>3 DEF WholeCommand
<1> QED
  BY <1>4, BeginCInv

\* `mode', `id' and the strings of the network: one field, one key.
LEMMA SetOneCInv ==
  ASSUME CInv, NEW f \in Field \ (Position \union {"port"}), NEW w \in Vals, SetOne(f, w)
  PROVE  CInv'
<1> DEFINE v == [g \in Field |-> w]
           fs == <<f>>
<1>2. \A g \in Field : v[g] = w
  OBVIOUS
<1>3. PositionOK(v["valid"], v["x"], v["yz"])
  BY DefaultFacts DEF Position, PositionOK
<1>4. Begin(fs, v, fs)
  BY DEF SetOne
<1>5. fs \in Seq(Field \ Position) /\ fs # <<>> /\ DOMAIN fs = {1} /\ fs[1] = f
  OBVIOUS
<1> HIDE DEF v, fs
<1> QED
  BY <1>2, <1>3, <1>4, <1>5, OwnKeysCInv

\* `antdelay' and `broker': two fields and their keys.
LEMMA SetTwoCInv ==
  ASSUME CInv, NEW f \in Field \ Position, NEW h \in Field \ Position, NEW w \in Values,
         Begin(<<f, h>>, [g \in Field |-> w], <<f, h>>)
  PROVE  CInv'
<1> DEFINE v == [g \in Field |-> w]
           fs == <<f, h>>
<1>1. w \in Vals /\ w # 0
  BY ConfigAssumption DEF Vals
<1>2. \A g \in Field : v[g] = w
  OBVIOUS
<1>3. PositionOK(v["valid"], v["x"], v["yz"])
  BY DefaultFacts DEF Position, PositionOK
<1>4. Begin(fs, v, fs)
  OBVIOUS
<1>5. /\ fs \in Seq(Field \ Position) /\ fs # <<>> /\ DOMAIN fs = {1, 2}
      /\ fs[1] \in Field /\ fs[2] \in Field
  OBVIOUS
<1> HIDE DEF v, fs
<1> QED
  BY <1>1, <1>2, <1>3, <1>4, <1>5, KeyFacts, OwnKeysCInv

LEMMA SetAntCInv ==
  ASSUME CInv, NEW w \in Values, SetAnt(w)
  PROVE  CInv'
<1>1. "ant_tx" \in Field \ Position /\ "ant_rx" \in Field \ Position
  BY DEF Field, Anchor, Position
<1> QED
  BY <1>1, SetTwoCInv DEF SetAnt

LEMMA SetBrokerCInv ==
  ASSUME CInv, NEW w \in Values, SetBroker(w)
  PROVE  CInv'
<1>1. "broker" \in Field \ Position /\ "port" \in Field \ Position
  BY DEF Field, Net, Position
<1> QED
  BY <1>1, SetTwoCInv DEF SetBroker

\* `pos' makes the position valid, and saves it as one record.
LEMMA SetPosCInv ==
  ASSUME CInv, NEW w \in Values, SetPos(w)
  PROVE  CInv'
<1> DEFINE v == [g \in Field |-> IF g = "valid" THEN 1 ELSE w]
           fs == <<"x", "yz", "valid">>
           ks == <<"pos">>
<1>1. w \in Vals /\ 1 \in Vals
  BY ConfigAssumption DEF Vals
<1>2. \A g \in Field : v[g] \in Vals
  BY <1>1
<1>3. PositionOK(v["valid"], v["x"], v["yz"])
  BY DefaultFacts DEF Position, PositionOK
<1>4. Begin(fs, v, ks)
  BY DEF SetPos
<1>5. /\ fs \in Seq(Field) /\ DOMAIN fs = {1, 2, 3}
      /\ fs[1] = "x" /\ fs[2] = "yz" /\ fs[3] = "valid"
      /\ ks \in Seq(Key) /\ ks # <<>> /\ DOMAIN ks = {1} /\ ks[1] = "pos"
  BY KeyFacts DEF Position
<1> HIDE DEF v, fs, ks
<1>6. \A i \in DOMAIN fs : /\ fs[i] \in Field /\ fs[i] \in Position
                           /\ KeyOf(fs[i]) = "pos" /\ fs[i] # "port"
  BY <1>5, KeyFacts DEF Position, KeyOf
<1>7. \A f \in FieldsOf("pos") : \E i \in DOMAIN fs : fs[i] = f
  BY <1>5, KeyFacts DEF Position
<1>8. WholeCommand(fs, v, ks)
  BY <1>2, <1>3, <1>5, <1>6, <1>7 DEF WholeCommand
<1> QED
  BY <1>4, <1>8, BeginCInv

\* `reset' of an anchor's settings.
LEMMA ResetAnchorCInv ==
  ASSUME CInv, ResetAnchor
  PROVE  CInv'
<1> DEFINE fs == <<"mode", "id", "ant_tx", "ant_rx", "x", "yz", "valid">>
           ks == <<"mode", "id", "ant_tx", "ant_rx", "pos">>
<1>1. Anchor \subseteq Field /\ Anchor \ Position \subseteq Key
  BY DEF Field, Key
<1>2. \A g \in Field : Defaults[g] = Default(g) /\ Default(g) \in Vals
  BY DefaultFacts DEF Defaults
<1>3. PositionOK(Defaults["valid"], Defaults["x"], Defaults["yz"])
  BY <1>2, DefaultFacts DEF Position, PositionOK
<1>4. Begin(fs, Defaults, ks)
  BY DEF ResetAnchor
<1>5. /\ DOMAIN fs = 1..7
      /\ fs[1] = "mode" /\ fs[2] = "id" /\ fs[3] = "ant_tx" /\ fs[4] = "ant_rx"
      /\ fs[5] = "x" /\ fs[6] = "yz" /\ fs[7] = "valid"
      /\ DOMAIN ks = 1..5
      /\ ks[1] = "mode" /\ ks[2] = "id" /\ ks[3] = "ant_tx" /\ ks[4] = "ant_rx"
      /\ ks[5] = "pos" /\ ks # <<>>
  OBVIOUS
<1>6. fs \in Seq(Field) /\ ks \in Seq(Key)
  <2>1. {"mode", "id", "ant_tx", "ant_rx", "x", "yz", "valid"} \subseteq Field
        /\ {"mode", "id", "ant_tx", "ant_rx", "pos"} \subseteq Key
    BY <1>1, KeyFacts DEF Anchor, Position
  <2> QED
    BY <2>1
<1> HIDE DEF fs, ks
<1>7. \A i \in DOMAIN fs : fs[i] \in Anchor /\ fs[i] # "port"
  BY <1>5 DEF Anchor, Position
<1>8. \A i \in DOMAIN fs : \E j \in DOMAIN ks : ks[j] = KeyOf(fs[i])
  <2>1. ASSUME NEW i \in 1..4 PROVE i \in DOMAIN ks /\ ks[i] = KeyOf(fs[i])
    BY <1>5 DEF KeyOf, Position
  <2>2. ASSUME NEW i \in 5..7 PROVE 5 \in DOMAIN ks /\ ks[5] = KeyOf(fs[i])
    BY <1>5 DEF KeyOf, Position
  <2>3. \A i \in DOMAIN fs : i \in 1..4 \/ i \in 5..7
    BY <1>5
  <2> QED
    BY <2>1, <2>2, <2>3
<1>9. \A j \in DOMAIN ks : \A f \in FieldsOf(ks[j]) : \E i \in DOMAIN fs : fs[i] = f
  <2>1. ASSUME NEW j \in 1..4, NEW f \in FieldsOf(ks[j]) PROVE j \in DOMAIN fs /\ fs[j] = f
    BY <1>5 DEF FieldsOf
  <2>2. ASSUME NEW f \in FieldsOf("pos") PROVE \E i \in DOMAIN fs : fs[i] = f
    BY <1>5, KeyFacts DEF Position
  <2>3. \A j \in DOMAIN ks : j \in 1..4 \/ ks[j] = "pos"
    BY <1>5
  <2> QED
    BY <2>1, <2>2, <2>3
<1>10. WholeCommand(fs, Defaults, ks)
  BY <1>1, <1>2, <1>3, <1>5, <1>6, <1>7, <1>8, <1>9 DEF WholeCommand
<1> QED
  BY <1>4, <1>10, BeginCInv

\* `reset' of the network's settings.
LEMMA ResetNetCInv ==
  ASSUME CInv, ResetNet
  PROVE  CInv'
<1> DEFINE mid == <<"broker", "port">>
           fs == WifiStrings \o mid \o MqttStrings
<1>1. Net \subseteq Field \ Position
  BY NamesAssumption DEF Net, Field, Position, Anchor
<1>2. WifiStrings \in Seq(Net) /\ MqttStrings \in Seq(Net) /\ mid \in Seq(Net) /\ Len(mid) = 2
  BY ConfigAssumption DEF Net, Wifi, Mqtt
<1>3. Begin(fs, Defaults, fs)
  BY DEF ResetNet
<1> HIDE DEF mid
<1>4. fs \in Seq(Net) /\ fs # <<>>
  <2> DEFINE h == WifiStrings \o mid
  <2>1. h \in Seq(Net) /\ Len(h) = Len(WifiStrings) + Len(mid)
    BY <1>2, ConcatProperties
  <2> HIDE DEF h
  <2>2. h \o MqttStrings \in Seq(Net) /\ Len(h \o MqttStrings) = Len(h) + Len(MqttStrings)
    BY <1>2, <2>1, ConcatProperties
  <2>3. Len(WifiStrings) \in Nat /\ Len(MqttStrings) \in Nat
    BY <1>2
  <2>4. Len(h \o MqttStrings) # 0
    BY <1>2, <2>1, <2>2, <2>3
  <2> QED
    BY <2>2, <2>4 DEF h
<1> HIDE DEF fs
<1>5. fs \in Seq(Field \ Position) /\ \A i \in DOMAIN fs : fs[i] \in Field
  BY <1>1, <1>4
<1>6. \A g \in Field : Defaults[g] = Default(g) /\ Default(g) \in Vals
  BY DefaultFacts DEF Defaults
<1>7. PositionOK(Defaults["valid"], Defaults["x"], Defaults["yz"]) /\ Defaults["port"] # 0
  BY <1>6, KeyFacts, DefaultFacts DEF Position, PositionOK
<1> QED
  BY <1>3, <1>4, <1>5, <1>6, <1>7, OwnKeysCInv

-----------------------------------------------------------------------------
(* The steps of a command *)

\* The rest of the operations, when the first is done.
LEMMA RestFacts ==
  ASSUME CInv, todo # <<>>, todo' = Tail(todo)
  PROVE  /\ todo' \in Seq(Ops)
         /\ 1 \in DOMAIN todo /\ todo[1] \in Ops /\ Head(todo) = todo[1]
         /\ \A i \in DOMAIN todo' : i + 1 \in DOMAIN todo /\ todo'[i] = todo[i + 1] /\ i \in Nat
         /\ \A i \in DOMAIN todo : i # 1 => i - 1 \in DOMAIN todo' /\ todo'[i - 1] = todo[i]
         /\ left = {} /\ thread # "none"
         /\ \A i, f : SetsField(i, f)' => SetsField(i + 1, f) /\ todo'[i] = todo[i + 1]
         /\ \A i, k : SavesKey(i, k)' => SavesKey(i + 1, k)
         /\ \A i, f : SetsField(i, f) /\ i # 1 =>
              SetsField(i - 1, f)' /\ todo'[i - 1] = todo[i]
         /\ \A i, k : SavesKey(i, k) /\ i # 1 => SavesKey(i - 1, k)'
<1>1. todo \in Seq(Ops) /\ thread # "none" /\ left = {}
  BY DEF CInv, CommandOK, BootOK
<1>2. /\ todo' \in Seq(Ops)
      /\ 1 \in DOMAIN todo /\ todo[1] \in Ops /\ Head(todo) = todo[1]
      /\ \A i \in DOMAIN todo' : i + 1 \in DOMAIN todo /\ todo'[i] = todo[i + 1] /\ i \in Nat
      /\ \A i \in DOMAIN todo : i # 1 => i - 1 \in DOMAIN todo' /\ todo'[i - 1] = todo[i]
  BY <1>1
<1>3. /\ \A i, f : SetsField(i, f)' => SetsField(i + 1, f) /\ todo'[i] = todo[i + 1]
      /\ \A i, k : SavesKey(i, k)' => SavesKey(i + 1, k)
  BY <1>2 DEF SetsField, SavesKey
<1>4. /\ \A i, f : SetsField(i, f) /\ i # 1 =>
           SetsField(i - 1, f)' /\ todo'[i - 1] = todo[i]
      /\ \A i, k : SavesKey(i, k) /\ i # 1 => SavesKey(i - 1, k)'
  BY <1>2 DEF SetsField, SavesKey
<1> QED
  BY <1>1, <1>2, <1>3, <1>4

\* The order of the rest is that of all.
LEMMA RestInOrder ==
  ASSUME CInv, todo # <<>>, todo' = Tail(todo),
         NEW i \in DOMAIN todo', NEW j \in DOMAIN todo', i < j, todo'[i].op = "save"
  PROVE  todo'[j].op = "save"
<1>1. /\ i + 1 \in DOMAIN todo /\ todo'[i] = todo[i + 1] /\ i \in Nat
      /\ j + 1 \in DOMAIN todo /\ todo'[j] = todo[j + 1] /\ j \in Nat
  BY RestFacts
<1>2. i + 1 < j + 1
  BY <1>1
<1> QED
  BY <1>1, <1>2 DEF CInv, CommandOK

\* An assignment leaves everything to save, and no field that it is not said to change.
LEMMA AssignCInv ==
  ASSUME CInv, Assign
  PROVE  CInv'
<1>1. /\ todo # <<>> /\ todo' = Tail(todo) /\ Head(todo).op = "set"
      /\ cfg' = [cfg EXCEPT ![Head(todo).field] = Head(todo).value]
      /\ UNCHANGED <<flash, left, thread, rec, failed, doing, said, raced>>
  BY DEF Assign, bootVars
<1>2. PICK f1, v1 : f1 = todo[1].field /\ v1 = todo[1].value
  OBVIOUS
<1>3. SetsField(1, f1) /\ todo[1].value = v1 /\ cfg' = [cfg EXCEPT ![f1] = v1]
  BY <1>1, <1>2, RestFacts DEF SetsField
<1>4. /\ f1 \in doing /\ f1 \in Field /\ (f1 = "port" => v1 # 0) /\ rec = NoRecord
      /\ \A g \in doing : WillSave(KeyOf(g))
  BY <1>2, <1>3 DEF CInv, CommandOK, RecOK
<1>5. DOMAIN cfg' = Field /\ cfg'[f1] = v1 /\ \A f \in Field : f # f1 => cfg'[f] = cfg[f]
  BY <1>3, <1>4 DEF CInv, CfgOK
<1>6. ASSUME NEW g \in doing PROVE WillSave(KeyOf(g))'
  <2>1. PICK i : SavesKey(i, KeyOf(g))
    BY <1>4 DEF WillSave
  <2>2. i # 1
    BY <1>3, <2>1 DEF SavesKey, SetsField
  <2>3. SavesKey(i - 1, KeyOf(g))'
    BY <1>1, <2>1, <2>2, RestFacts
  <2> QED
    BY <2>3 DEF WillSave
<1>7. BootOK' /\ FlashOK' /\ RecOK' /\ SavesOK'
  <2>1. left' = {}
    BY <1>1, RestFacts
  <2>2. FlashOK'
    BY <1>1 DEF CInv, FlashOK, Whole
  <2> QED
    BY <1>1, <1>4, <1>6, <2>1, <2>2 DEF BootOK, RecOK, SavesOK
<1>8. CommandOK'
  <2>1. todo' # <<>>
    <3>1. PICK i : SavesKey(i, KeyOf(f1))'
      BY <1>4, <1>6 DEF WillSave
    <3> QED
      BY <3>1 DEF SavesKey
  <2>2. ASSUME NEW i, NEW f, SetsField(i, f)'
        PROVE  f \in doing /\ (f = "port" => todo'[i].value # 0)
    <3>1. SetsField(i + 1, f) /\ todo'[i] = todo[i + 1]
      BY <1>1, <2>2, RestFacts
    <3> QED
      BY <3>1 DEF CInv, CommandOK
  <2>3. ASSUME NEW i, NEW k, SavesKey(i, k)' PROVE FieldsOf(k) \subseteq doing
    <3>1. SavesKey(i + 1, k)
      BY <1>1, <2>3, RestFacts
    <3> QED
      BY <3>1 DEF CInv, CommandOK
  <2>4. todo' \in Seq(Ops) /\ thread' # "none" /\ doing' \subseteq Field
    BY <1>1, RestFacts DEF CInv, CommandOK
  <2>5. \A i, j \in DOMAIN todo' : i < j /\ todo'[i].op = "save" => todo'[j].op = "save"
    BY <1>1, RestInOrder
  <2> QED
    BY <1>1, <1>6, <2>1, <2>2, <2>3, <2>4, <2>5 DEF CommandOK
<1>9. CfgOK'
  <2>1. ASSUME NEW f \in Field, NEW v, WillBe(f, v) PROVE WillBe(f, v)'
    <3>1. ASSUME NEW i, SetsField(i, f)' PROVE todo'[i].value = v
      <4>1. SetsField(i + 1, f) /\ todo'[i] = todo[i + 1]
        BY <1>1, <3>1, RestFacts
      <4> QED
        BY <2>1, <4>1 DEF WillBe
    <3>2. CASE f = f1
      BY <1>3, <1>5, <2>1, <3>1, <3>2 DEF WillBe
    <3>3. CASE f # f1
      <4>1. CASE cfg[f] = v
        BY <1>5, <3>1, <3>3, <4>1 DEF WillBe
      <4>2. CASE \E i : SetsField(i, f)
        <5>1. PICK i : SetsField(i, f)
          BY <4>2
        <5>2. i # 1
          BY <1>2, <3>3, <5>1 DEF SetsField
        <5>3. SetsField(i - 1, f)'
          BY <1>1, <5>1, <5>2, RestFacts
        <5> QED
          BY <3>1, <5>3 DEF WillBe
      <4> QED
        BY <2>1, <4>1, <4>2 DEF WillBe
    <3> QED
      BY <3>2, <3>3
  <2>2. cfg'["port"] # 0
    BY <1>4, <1>5, KeyFacts DEF CInv, CfgOK
  <2>3. ASSUME ~raced
        PROVE  \E v, x, yz : /\ PositionOK(v, x, yz)
                             /\ WillBe("valid", v)' /\ WillBe("x", x)' /\ WillBe("yz", yz)'
    <3>1. PICK v, x, yz : PositionOK(v, x, yz) /\ WillBe("valid", v) /\ WillBe("x", x)
                          /\ WillBe("yz", yz)
      BY <2>3 DEF CInv, CfgOK
    <3>2. WillBe("valid", v)' /\ WillBe("x", x)' /\ WillBe("yz", yz)'
      BY <2>1, <3>1, DefaultFacts DEF Position
    <3> QED
      BY <3>1, <3>2
  <2> QED
    BY <1>1, <1>5, <2>2, <2>3 DEF CfgOK
<1>10. SaidOK'
  <2>1. ASSUME NEW f \in said PROVE Agrees(f)'
    <3>1. f # f1 /\ f \in Field /\ Agrees(f)
      BY <1>1, <1>4, RestFacts DEF CInv, SaidOK
    <3> QED
      BY <1>1, <1>5, <3>1 DEF Agrees, Boots
  <2> QED
    BY <1>1, <2>1 DEF CInv, SaidOK
<1> QED
  BY <1>7, <1>8, <1>9, <1>10 DEF CInv

\* The record is copied from memory.
LEMMA CopyRecordCInv ==
  ASSUME CInv, CopyRecord
  PROVE  CInv'
<1>1. /\ todo # <<>> /\ Head(todo).op = "save"
      /\ rec' = [f \in FieldsOf(Head(todo).key) |-> cfg[f]]
      /\ UNCHANGED <<cfg, flash, left, thread, todo, failed, doing, said, raced>>
  BY DEF CopyRecord, bootVars
<1>2. Head(todo) = todo[1]
  BY <1>1 DEF CInv, CommandOK
<1>3. (\A i, f : SetsField(i, f)' <=> SetsField(i, f))
      /\ (\A i, k : SavesKey(i, k)' <=> SavesKey(i, k))
  BY <1>1 DEF SetsField, SavesKey
<1>4. (\A f, v : WillBe(f, v)' <=> WillBe(f, v)) /\ (\A k : WillSave(k)' <=> WillSave(k))
      /\ (\A f : Agrees(f)' <=> Agrees(f))
  BY <1>1, <1>3 DEF WillBe, WillSave, Agrees, Boots
<1>5. BootOK' /\ SaidOK'
  BY <1>1, <1>4 DEF CInv, BootOK, SaidOK
<1>6. CommandOK' /\ SavesOK'
  BY <1>1, <1>3, <1>4 DEF CInv, CommandOK, SavesOK
<1>7. CfgOK' /\ FlashOK'
  BY <1>1, <1>3, <1>4 DEF CInv, CfgOK, FlashOK, Whole
<1>8. RecOK'
  <2>1. ASSUME NEW k, SavesKey(1, k) PROVE rec' = [f \in FieldsOf(k) |-> cfg[f]]
    BY <1>1, <1>2, <2>1 DEF SavesKey
  <2>2. \A f : ~SetsField(1, f)
    BY <1>1, <1>2 DEF SetsField
  <2> QED
    BY <1>1, <1>3, <2>1, <2>2 DEF RecOK
<1> QED
  BY <1>5, <1>6, <1>7, <1>8 DEF CInv

\* A record that is written makes its fields agree, and no other field less so;
\* one that is not written fails the command.
LEMMA WriteRecordCInv ==
  ASSUME CInv, NEW written \in BOOLEAN, WriteRecord(written)
  PROVE  CInv'
<1>1. /\ todo # <<>> /\ todo' = Tail(todo) /\ Head(todo).op = "save" /\ rec # NoRecord
      /\ flash' = IF written THEN [flash EXCEPT ![Head(todo).key] = rec] ELSE flash
      /\ failed' = (failed \/ ~written) /\ rec' = NoRecord
      /\ said' = IF todo' = <<>> /\ ~failed' THEN said \union doing ELSE said
      /\ doing' = IF todo' = <<>> THEN {} ELSE doing
      /\ UNCHANGED <<cfg, left, thread, raced>>
  BY DEF WriteRecord, Outcome, bootVars
<1>2. PICK k1 : k1 = todo[1].key
  OBVIOUS
<1>3. SavesKey(1, k1) /\ (written => flash' = [flash EXCEPT ![k1] = rec])
      /\ (~written => flash' = flash)
  BY <1>1, <1>2, RestFacts DEF SavesKey
<1>4. /\ k1 \in Key /\ FieldsOf(k1) \subseteq doing /\ DOMAIN rec = FieldsOf(k1)
      /\ \A f \in FieldsOf(k1) : rec[f] = cfg[f] \/ (raced /\ f \in Position)
  <2>1. todo[1] \in Ops /\ todo[1].op = "save"
    BY <1>1, RestFacts
  <2>2. k1 \in Key
    BY <1>2, <2>1 DEF Ops
  <2> QED
    BY <1>1, <1>3, <2>2 DEF CInv, CommandOK, RecOK
<1>5. \A i, f : ~SetsField(i, f)
  <2>1. SUFFICES ASSUME NEW i, NEW f, SetsField(i, f) PROVE FALSE
    OBVIOUS
  <2>2. i \in DOMAIN todo /\ 1 \in DOMAIN todo /\ todo[i].op = "set" /\ todo[1].op = "save"
    BY <1>3, <2>1 DEF SetsField, SavesKey
  <2>3. 1 < i \/ i = 1
    BY <2>2 DEF CInv, CommandOK
  <2> QED
    BY <2>2, <2>3 DEF CInv, CommandOK
<1>6. \A i, f : ~SetsField(i, f)'
  BY <1>1, <1>5, RestFacts
<1>7. ~raced => PositionOK(cfg["valid"], cfg["x"], cfg["yz"])
  <2>1. SUFFICES ASSUME ~raced PROVE PositionOK(cfg["valid"], cfg["x"], cfg["yz"])
    OBVIOUS
  <2>2. PICK v, x, yz : PositionOK(v, x, yz) /\ WillBe("valid", v) /\ WillBe("x", x)
                        /\ WillBe("yz", yz)
    BY <2>1 DEF CInv, CfgOK
  <2> QED
    BY <1>5, <2>2 DEF WillBe
<1>8. Whole(k1, rec)
  <2>1. k1 = "port" => rec["port"] # 0
    BY <1>4, KeyFacts DEF FieldsOf, CInv, CfgOK
  <2>2. k1 = "pos" /\ ~raced => rec["valid"] = cfg["valid"] /\ rec["x"] = cfg["x"]
                                /\ rec["yz"] = cfg["yz"]
    BY <1>4, KeyFacts DEF Position
  <2> QED
    BY <1>4, <1>7, <2>1, <2>2 DEF Whole
<1>9. /\ DOMAIN flash = Key /\ DOMAIN flash' = Key
      /\ \A k \in Key : k # k1 => flash'[k] = flash[k]
      /\ flash'[k1] = IF written THEN rec ELSE flash[k1]
  BY <1>3, <1>4 DEF CInv, FlashOK
<1>10. ASSUME NEW f \in Field, f \notin FieldsOf(k1) PROVE Agrees(f)' <=> Agrees(f)
  <2>1. KeyOf(f) \in Key /\ KeyOf(f) # k1
    BY <1>10, KeyFacts
  <2> QED
    BY <1>1, <1>9, <2>1 DEF Agrees, Boots
<1>11. ASSUME written, NEW f \in FieldsOf(k1) PROVE Agrees(f)'
  <2>1. KeyOf(f) = k1
    BY <1>4, KeyFacts
  <2>2. Boots(f)' = rec[f]
    BY <1>1, <1>9, <1>11, <2>1 DEF Boots
  <2> QED
    BY <1>1, <1>4, <2>2 DEF Agrees
<1>12. ASSUME ~failed', NEW f \in doing PROVE WillSave(KeyOf(f))' \/ Agrees(f)'
  <2>1. ~failed /\ written
    BY <1>1, <1>12
  <2>2. f \in Field
    BY DEF CInv, CommandOK
  <2>3. CASE f \in FieldsOf(k1)
    BY <1>11, <2>1, <2>3
  <2>4. CASE f \notin FieldsOf(k1)
    <3>1. KeyOf(f) # k1
      BY <2>2, <2>4, KeyFacts
    <3>2. CASE Agrees(f)
      BY <1>10, <2>2, <2>4, <3>2
    <3>3. CASE WillSave(KeyOf(f))
      <4>1. PICK i : SavesKey(i, KeyOf(f))
        BY <3>3 DEF WillSave
      <4>2. i # 1
        BY <1>2, <3>1, <4>1 DEF SavesKey
      <4>3. SavesKey(i - 1, KeyOf(f))'
        BY <1>1, <4>1, <4>2, RestFacts
      <4> QED
        BY <4>3 DEF WillSave
    <3> QED
      BY <2>1, <3>2, <3>3 DEF CInv, SavesOK
  <2> QED
    BY <2>3, <2>4
<1>13. BootOK' /\ RecOK'
  BY <1>1, RestFacts DEF BootOK, RecOK
<1>14. FlashOK'
  <2>1. ASSUME NEW k \in Key, flash'[k] # NoRecord PROVE Whole(k, flash'[k])
    BY <1>8, <1>9, <2>1 DEF CInv, FlashOK
  <2>2. \A k, r : Whole(k, r)' <=> Whole(k, r)
    BY <1>1 DEF Whole
  <2>3. \A k \in Key : flash'[k] # NoRecord => Whole(k, flash[k])'
    BY <1>1, <2>1 DEF Whole
  <2> QED
    BY <1>9, <2>3 DEF FlashOK
<1>15. CfgOK'
  <2>1. WillBe("valid", cfg["valid"])' /\ WillBe("x", cfg["x"])' /\ WillBe("yz", cfg["yz"])'
    BY <1>1, <1>6 DEF WillBe
  <2> QED
    BY <1>1, <1>7, <2>1 DEF CInv, CfgOK
<1>16. SavesOK'
  BY <1>1, <1>12 DEF SavesOK
<1>17. CommandOK'
  <2>1. ASSUME NEW i, NEW k, SavesKey(i, k)' PROVE FieldsOf(k) \subseteq doing'
    <3>1. SavesKey(i + 1, k)
      BY <1>1, <2>1, RestFacts
    <3>2. todo' # <<>>
      BY <2>1 DEF SavesKey
    <3> QED
      BY <1>1, <3>1, <3>2 DEF CInv, CommandOK
  <2>2. todo' \in Seq(Ops) /\ thread' # "none" /\ doing' \subseteq Field
    BY <1>1, RestFacts DEF CInv, CommandOK
  <2>3. \A i, j \in DOMAIN todo' : i < j /\ todo'[i].op = "save" => todo'[j].op = "save"
    BY <1>1, RestInOrder
  <2> QED
    BY <1>1, <1>6, <2>1, <2>2, <2>3 DEF CommandOK
<1>18. SaidOK'
  <2>1. ASSUME NEW f \in said PROVE Agrees(f)' /\ f \in Field /\ f \notin doing
    <3>1. f \in Field /\ f \notin doing /\ Agrees(f)
      BY <1>1, RestFacts DEF CInv, SaidOK
    <3> QED
      BY <1>4, <1>10, <3>1
  <2>2. CASE todo' = <<>> /\ ~failed'
    <3>1. \A k : ~WillSave(k)'
      BY <2>2 DEF WillSave, SavesKey
    <3>2. \A f \in doing : Agrees(f)' /\ f \in Field
      BY <1>12, <2>2, <3>1 DEF CInv, CommandOK
    <3> QED
      BY <1>1, <2>1, <2>2, <3>2 DEF SaidOK
  <2>3. CASE ~(todo' = <<>> /\ ~failed')
    BY <1>1, <2>1, <2>3 DEF SaidOK
  <2> QED
    BY <2>2, <2>3
<1> QED
  BY <1>13, <1>14, <1>15, <1>16, <1>17, <1>18 DEF CInv

-----------------------------------------------------------------------------
(* A SETPOS on an anchor *)

\* It changes the position and no more; in the middle of a command on the
\* position, the two race.
LEMMA SetPosFrameCInv ==
  ASSUME CInv, NEW w \in Values, NEW written \in BOOLEAN, SetPosFrame(w, written)
  PROVE  CInv'
<1>1. /\ thread = "slave" /\ UNCHANGED <<left, thread, todo, rec, failed, doing>>
      /\ cfg' = [cfg EXCEPT !.x = w, !.yz = w, !.valid = 1]
      /\ flash' = IF written THEN [flash EXCEPT !.pos = [f \in Position |-> cfg'[f]]] ELSE flash
      /\ said' = IF written THEN said \union (Position \ doing) ELSE said \ Position
      /\ raced' = (raced \/ doing \intersect Position # {})
  BY DEF SetPosFrame, shellVars, bootVars
<1>2. left = {} /\ left' = {}
  BY <1>1 DEF CInv, BootOK
<1>3. /\ DOMAIN cfg' = Field /\ cfg'["valid"] = 1
      /\ \A f \in Field \ Position : cfg'[f] = cfg[f]
  BY <1>1, KeyFacts DEF CInv, CfgOK, Position
<1>4. /\ DOMAIN flash' = Key /\ \A k \in Key : k # "pos" => flash'[k] = flash[k]
      /\ flash'["pos"] = IF written THEN [f \in Position |-> cfg'[f]] ELSE flash["pos"]
  BY <1>1, KeyFacts DEF CInv, FlashOK
<1>5. (\A i, f : SetsField(i, f)' <=> SetsField(i, f))
      /\ (\A i, k : SavesKey(i, k)' <=> SavesKey(i, k))
  BY <1>1 DEF SetsField, SavesKey
<1>6. \A k : WillSave(k)' <=> WillSave(k)
  BY <1>5 DEF WillSave
<1>7. ASSUME NEW f \in Field \ Position PROVE Agrees(f)' <=> Agrees(f)
  <2>1. KeyOf(f) \in Key /\ KeyOf(f) # "pos"
    BY KeyFacts DEF KeyOf
  <2> QED
    BY <1>3, <1>4, <2>1 DEF Agrees, Boots
<1>8. ASSUME written, NEW f \in Position PROVE Agrees(f)'
  <2>1. [g \in Position |-> cfg'[g]] # NoRecord
    <3>1. DOMAIN [g \in Position |-> cfg'[g]] = Position /\ DOMAIN NoRecord = {}
      BY DEF NoRecord
    <3> QED
      BY <3>1
  <2>2. Boots(f)' = cfg'[f]
    BY <1>4, <1>8, <2>1 DEF Boots, KeyOf
  <2> QED
    BY <2>2 DEF Agrees
<1>9. ASSUME NEW f \in doing, f \in Position PROVE raced' /\ Agrees(f)'
  BY <1>1, <1>9 DEF Agrees
<1>10. BootOK' /\ CommandOK'
  BY <1>1, <1>2, <1>5, <1>6 DEF CInv, BootOK, CommandOK
<1>11. SavesOK'
  <2>1. ASSUME ~failed, NEW f \in doing PROVE WillSave(KeyOf(f)) \/ Agrees(f)'
    <3>1. f \in Field /\ (WillSave(KeyOf(f)) \/ Agrees(f))
      BY <2>1 DEF CInv, CommandOK, SavesOK
    <3> QED
      BY <1>7, <1>9, <3>1
  <2> QED
    BY <1>1, <1>6, <2>1 DEF SavesOK
<1>12. CfgOK'
  <2>1. cfg'["port"] # 0
    BY <1>3, KeyFacts DEF CInv, CfgOK
  <2>2. ASSUME ~raced' PROVE \A f \in Position : WillBe(f, cfg[f])'
    <3>1. \A f \in Position : f \notin doing
      BY <1>1, <2>2
    <3>2. \A f \in Position : \A i : ~SetsField(i, f)'
      BY <1>5, <3>1 DEF CInv, CommandOK
    <3> QED
      BY <3>2 DEF WillBe
  <2>3. PositionOK(cfg'["valid"], cfg'["x"], cfg'["yz"])
    BY <1>3 DEF PositionOK
  <2>4. "valid" \in Position /\ "x" \in Position /\ "yz" \in Position
    BY DEF Position
  <2> QED
    BY <1>3, <2>1, <2>2, <2>3, <2>4 DEF CfgOK
<1>13. FlashOK'
  <2>1. ASSUME NEW k \in Key, flash'[k] # NoRecord PROVE Whole(k, flash[k])'
    <3>1. CASE k = "pos" /\ written
      <4>1. flash'[k] = [f \in Position |-> cfg'[f]]
        BY <1>4, <3>1
      <4>2. DOMAIN flash'[k] = FieldsOf(k) /\ flash'[k]["valid"] = 1 /\ k # "port"
        BY <1>3, <3>1, <4>1, KeyFacts DEF Position
      <4> QED
        BY <4>2 DEF Whole, PositionOK
    <3>2. CASE ~(k = "pos" /\ written)
      <4>1. flash'[k] = flash[k]
        BY <1>4, <3>2
      <4>2. Whole(k, flash[k])
        BY <2>1, <4>1 DEF CInv, FlashOK
      <4> QED
        BY <1>1, <4>1, <4>2 DEF Whole
    <3> QED
      BY <3>1, <3>2
  <2> QED
    BY <1>4, <2>1 DEF FlashOK
<1>14. RecOK'
  <2>1. ASSUME NEW k, rec # NoRecord, SavesKey(1, k), NEW f \in FieldsOf(k)
        PROVE  rec[f] = cfg'[f] \/ (raced' /\ f \in Position)
    <3>1. f \in doing /\ f \in Field
      BY <2>1 DEF CInv, CommandOK
    <3>2. CASE f \in Position
      BY <1>9, <3>1, <3>2
    <3>3. CASE f \notin Position
      BY <1>3, <2>1, <3>1, <3>3 DEF CInv, RecOK
    <3> QED
      BY <3>2, <3>3
  <2> QED
    BY <1>1, <1>5, <2>1 DEF CInv, RecOK
<1>15. SaidOK'
  <2>1. ASSUME NEW f \in said' PROVE f \in Field /\ f \notin doing /\ Agrees(f)'
    <3>1. CASE f \in Position
      BY <1>1, <1>8, <2>1, <3>1, KeyFacts DEF CInv, SaidOK
    <3>2. CASE f \notin Position
      <4>1. f \in said
        BY <1>1, <2>1, <3>2
      <4> QED
        BY <1>2, <1>7, <3>2, <4>1 DEF CInv, SaidOK
    <3> QED
      BY <3>1, <3>2
  <2> QED
    BY <1>1, <2>1 DEF SaidOK
<1> QED
  BY <1>10, <1>11, <1>12, <1>13, <1>14, <1>15 DEF CInv

-----------------------------------------------------------------------------
(* The theorems *)

LEMMA BootStepCInv ==
  ASSUME CInv, Boot
  PROVE  CInv'
<1>1. CASE Reboot
  BY <1>1, RebootCInv
<1>2. ASSUME NEW k \in left, Load(k) PROVE CInv'
  BY <1>2, LoadCInv
<1>3. ASSUME NEW k \in left, LoadFails({k}) PROVE CInv'
  <2>1. {k} \in SUBSET left
    OBVIOUS
  <2> QED
    BY <1>3, <2>1, LoadFailsCInv
<1>4. CASE LoadFails(left)
  <2>1. PICK lost \in SUBSET left : lost = left
    OBVIOUS
  <2>2. LoadFails(lost)
    BY <1>4, <2>1
  <2> QED
    BY <2>2, LoadFailsCInv
<1>5. CASE Start
  <2>1. /\ left = {} /\ UNCHANGED <<cfg, flash, left, shellVars, said, raced>>
        /\ thread' \in {"slave", "gateway", "refused"}
    BY <1>5 DEF Start
  <2> QED
    BY <2>1, ReaderCInv
<1> QED
  BY <1>1, <1>2, <1>3, <1>4, <1>5 DEF Boot

LEMMA ShellStepCInv ==
  ASSUME CInv, Shell
  PROVE  CInv'
<1>1. Values \union {0} = Vals /\ {0, 1} \subseteq Vals /\ Values \subseteq Vals
  BY ConfigAssumption DEF Vals
<1>2. {"mode", "id"} \union Mqtt \union Wifi \subseteq Field \ (Position \union {"port"})
  BY NamesAssumption DEF Field, Net, Anchor, Position
<1>3. ASSUME NEW v \in {0, 1}, SetOne("mode", v) PROVE CInv'
  BY <1>1, <1>2, <1>3, SetOneCInv
<1>4. ASSUME NEW f \in {"id"} \union Mqtt, NEW v \in Values \union {0}, SetOne(f, v) PROVE CInv'
  BY <1>1, <1>2, <1>4, SetOneCInv
<1>5. ASSUME NEW f \in Wifi, NEW v \in Values, SetOne(f, v) PROVE CInv'
  BY <1>1, <1>2, <1>5, SetOneCInv
<1>6. ASSUME NEW v \in Values, SetAnt(v) \/ SetPos(v) \/ SetBroker(v) PROVE CInv'
  BY <1>6, SetAntCInv, SetPosCInv, SetBrokerCInv
<1>7. CASE ResetAnchor \/ ResetNet
  BY <1>7, ResetAnchorCInv, ResetNetCInv
<1>8. CASE Assign \/ CopyRecord
  BY <1>8, AssignCInv, CopyRecordCInv
<1>9. ASSUME NEW written \in BOOLEAN, WriteRecord(written) PROVE CInv'
  BY <1>9, WriteRecordCInv
<1>10. CASE RequireGateway
  BY <1>10, ReaderCInv DEF RequireGateway, bootVars
<1> QED
  BY <1>3, <1>4, <1>5, <1>6, <1>7, <1>8, <1>9, <1>10 DEF Shell

LEMMA ThreadStepCInv ==
  ASSUME CInv, Threads
  PROVE  CInv'
<1>1. ASSUME NEW v \in Values, NEW written \in BOOLEAN, SetPosFrame(v, written) PROVE CInv'
  BY <1>1, SetPosFrameCInv
<1>2. CASE Associate \/ Connect
  BY <1>2, ReaderCInv DEF Associate, Connect, Uses, bootVars
<1> QED
  BY <1>1, <1>2 DEF Threads

\* The invariant of the configuration is inductive: commands, boots in any
\* order of the keys, faults, power cuts and SETPOS frames all keep it.
THEOREM ConfigInductive == Spec => []CInv
<1>1. Init => CInv
  BY InitCInv
<1>2. CInv /\ [Next]_vars => CInv'
  <2> SUFFICES ASSUME CInv, [Next]_vars PROVE CInv'
    OBVIOUS
  <2>1. CASE UNCHANGED vars
    BY <2>1, ReaderCInv DEF vars, bootVars
  <2> QED
    BY <2>1, BootStepCInv, ShellStepCInv, ThreadStepCInv DEF Next
<1> QED
  BY <1>1, <1>2, PTL DEF Spec

\* A change is lost only if its command reported so, on every board: when the
\* settings are loaded, every field whose last change was not reported as lost
\* is in memory what the next boot will make of it.
THEOREM AlwaysSaidIsSaved == Spec => []SaidIsSaved
<1>1. CInv => SaidIsSaved
  BY DEF CInv, SaidOK, SaidIsSaved, Agrees
<1> QED
  BY <1>1, ConfigInductive, PTL
=============================================================================
