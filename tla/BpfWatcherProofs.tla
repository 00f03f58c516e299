-------------------------- MODULE BpfWatcherProofs --------------------------
(* Proofs about BpfWatcher, for every process tree and every set of pids. *)
EXTENDS BpfWatcher, SequenceTheorems, TLAPS

USE BpfAssumption

-----------------------------------------------------------------------------
(* The inductive invariant. *)

Birth == [who : {"self", "shell", "helper", "other"}, chain : SUBSET Pid]
Record == [pid : Pid, birth : Birth, given : SUBSET Pid]

TypeOK ==
    /\ DOMAIN parent \subseteq Pid
    /\ parent \in [DOMAIN parent -> Pid \cup {0}]
    /\ birth \in [DOMAIN parent -> Birth]
    /\ records \in Seq(Record)
    /\ pc \in {"poll", "walk", "alerted", "ignored"}
    /\ rec \in Record
    /\ current \in Pid \cup {0}
    /\ seen \subseteq Pid

(* init and this program never exit. *)
PidInv == {1, Self} \subseteq DOMAIN parent

Outsider == {"shell", "other"}

(* Is p a process outside this program's family? *)
LiveOutsider(p) == p \in DOMAIN parent /\ birth[p].who \in Outsider

(* The ancestors of an outsider are outsiders. *)
OutsiderInv ==
    /\ birth[Self].who = "self"
    /\ birth[1].who \in Outsider
    /\ \A p \in DOMAIN parent :
          birth[p].who \in Outsider => parent[p] = 0 \/ LiveOutsider(parent[p])

(* A whitelisted pid of an outsider other than the shell was the shell's. *)
WhitelistInv(p, b) == p \in whitelist /\ b.who = "other" => p = Tree[Self]

(* Where an outsider's record leads as long as no pid on the way is among  *)
(* those given to new processes.                                           *)
OutsiderAt(given, p) ==
    p \notin given => p = 0 \/ p \notin DOMAIN parent \/ LiveOutsider(p)

(* The chain of a process goes up by one link to its parent's chain. *)
Linked(p) ==
    /\ p \in birth[p].chain
    /\ birth[p].chain \subseteq DOMAIN parent
    /\ \/ parent[p] = Self /\ birth[p].chain = {p}
       \/ /\ parent[p] \in DOMAIN parent
          /\ birth[parent[p]].chain # {}
          /\ p \notin birth[parent[p]].chain
          /\ birth[p].chain = birth[parent[p]].chain \cup {p}

ChainInv ==
    /\ birth[1].chain = {}
    /\ birth[Self].chain = {}
    /\ \A p \in DOMAIN parent : birth[p].chain # {} => Linked(p)

(* What a record in the buffer still says. *)
RecordInv(r) ==
    /\ Self \notin r.given
    /\ WhitelistInv(r.pid, r.birth)
    /\ r.birth.who = "other" => OutsiderAt(r.given, r.pid)
    /\ r.birth.chain # {} => r.pid \in DOMAIN parent /\ birth[r.pid] = r.birth

(* The walk of a helper whose chain is whole is on that chain, above all   *)
(* it has seen; the walk of an outsider never meets this program.          *)
WalkInv ==
    pc = "walk" =>
        /\ Self \notin rec.given
        /\ rec.birth.who = "other" =>
              seen \cap rec.given # {} \/ OutsiderAt(rec.given, current)
        /\ rec.birth.chain # {} =>
              /\ Self \notin seen
              /\ \/ current = Self
                 \/ /\ current \in DOMAIN parent
                    /\ birth[current].chain # {}
                    /\ birth[current].chain \subseteq rec.birth.chain
                    /\ seen \cap birth[current].chain = {}

IInv ==
    /\ TypeOK
    /\ PidInv
    /\ OutsiderInv
    /\ \A p \in DOMAIN parent : WhitelistInv(p, birth[p])
    /\ ChainInv
    /\ \A i \in 1 .. Len(records) : RecordInv(records[i])
    /\ WalkInv
    /\ OutsiderAlerted
    /\ LiveHelperIgnored

-----------------------------------------------------------------------------
(* Breaking a chain changes nothing else. *)

(* Broken keeps the kind of a birth and the whole of a chain without p. *)
LEMMA BrokenBirth ==
    ASSUME NEW b \in Birth, NEW p
    PROVE  /\ Broken(b, p) \in Birth
           /\ Broken(b, p).who = b.who
           /\ p \in b.chain => Broken(b, p).chain = {}
           /\ p \notin b.chain => Broken(b, p) = b
BY DEF Broken, Birth

LEMMA InitialInv == Init => IInv
<1> SUFFICES ASSUME Init PROVE IInv
  OBVIOUS
<1> USE DEF Init
<1>1. \A p \in DOMAIN Tree :
          /\ birth[p] \in Birth
          /\ birth[p].chain = {}
          /\ birth[p].who \in {"self", "shell", "other"}
          /\ birth[p].who = "self" <=> p = Self
          /\ p = Tree[Self] => birth[p].who = "shell"
  BY DEF Birth
<1>2. TypeOK
  <2>1. birth \in [DOMAIN parent -> Birth]
    BY <1>1
  <2>2. records \in Seq(Record) /\ rec \in Record
    BY DEF Record, Birth, Idle
  <2> QED
    BY <2>1, <2>2 DEF TypeOK
<1>3. PidInv
  BY DEF PidInv
<1>4. OutsiderInv
  BY <1>1 DEF OutsiderInv, Outsider, LiveOutsider
<1>5. \A p \in DOMAIN parent : WhitelistInv(p, birth[p])
  BY <1>1 DEF WhitelistInv, whitelist
<1>6. ChainInv
  BY <1>1 DEF ChainInv
<1>7. \A i \in 1 .. Len(records) : RecordInv(records[i])
  BY EmptySeq
<1> QED
  BY <1>2, <1>3, <1>4, <1>5, <1>6, <1>7 DEF IInv, WalkInv, OutsiderAlerted, LiveHelperIgnored

-----------------------------------------------------------------------------
(* The process tree. *)

LEMMA ForkStep ==
    ASSUME IInv, NEW p \in DOMAIN parent, NEW c \in Pid, Fork(p, c)
    PROVE  IInv'
<1>0. UNCHANGED <<pc, current, seen>>
  BY DEF Fork
<1>1. /\ DOMAIN parent' = DOMAIN parent \cup {c}
      /\ DOMAIN birth' = DOMAIN parent \cup {c}
      /\ c \notin DOMAIN parent
      /\ parent'[c] = p
      /\ \A q \in DOMAIN parent : q # c /\ parent'[q] = parent[q] /\ birth'[q] = birth[q]
      /\ birth'[c] = [who |-> IF birth[p].who \in {"self", "helper"} THEN "helper" ELSE "other",
                      chain |-> IF p = Self \/ birth[p].chain # {}
                                THEN birth[p].chain \cup {c} ELSE {}]
  BY DEF Fork, IInv, TypeOK, With
<1>2. birth[p] \in Birth /\ DOMAIN parent \subseteq Pid
  BY DEF IInv, TypeOK
<1>3. birth'[c] \in Birth
  <2>1. birth[p].chain \cup {c} \in SUBSET Pid
    BY <1>2 DEF Birth
  <2> QED
    BY <1>1, <2>1 DEF Birth
<1>15. Len(records') = Len(records) /\ records' \in Seq(Record)
       /\ \A i \in 1 .. Len(records) :
             /\ records[i] \in Record
             /\ records'[i].pid = records[i].pid
             /\ records'[i].birth = records[i].birth
             /\ records'[i].given = records[i].given \cup {c}
  <2>1. DOMAIN records = 1 .. Len(records) /\ Len(records) \in Nat
    BY LenProperties DEF IInv, TypeOK
  <2>2. \A i \in 1 .. Len(records) : records[i] \in Record
    BY ElementOfSeq DEF IInv, TypeOK
  <2>3. records' = [i \in 1 .. Len(records) |->
                      [records[i] EXCEPT !.given = records[i].given \cup {c}]]
    BY <2>1 DEF Fork
  <2>4. ASSUME NEW i \in 1 .. Len(records)
        PROVE  /\ records'[i].pid = records[i].pid
               /\ records'[i].birth = records[i].birth
               /\ records'[i].given = records[i].given \cup {c}
               /\ records'[i] \in Record
    <3>1. records'[i] = [records[i] EXCEPT !.given = records[i].given \cup {c}]
      BY <2>3
    <3> QED
      BY <2>2, <3>1 DEF Record
  <2>5. records' \in [1 .. Len(records) -> Record]
    BY <2>3, <2>4
  <2>6. records' \in Seq(Record)
    BY <2>1, <2>5, SeqDef
  <2>7. Len(records') = Len(records)
    <3>1. DOMAIN records' = 1 .. Len(records) /\ DOMAIN records' = 1 .. Len(records')
          /\ Len(records') \in Nat
      BY <2>5, <2>6, LenProperties
    <3> QED
      BY <2>1, <3>1
  <2> QED
    BY <2>2, <2>4, <2>6, <2>7
<1>16. /\ rec \in Record /\ rec' \in Record
       /\ rec'.pid = rec.pid /\ rec'.birth = rec.birth
       /\ pc = "walk" => rec'.given = rec.given \cup {c}
       /\ pc # "walk" => rec' = rec
  <2>1. rec \in Record
    BY DEF IInv, TypeOK
  <2>2. rec' = IF pc = "walk" THEN [rec EXCEPT !.given = rec.given \cup {c}] ELSE rec
    BY DEF Fork
  <2> QED
    BY <2>1, <2>2 DEF Record
<1>4. TypeOK'
  <2>1. parent' \in [DOMAIN parent' -> Pid \cup {0}]
    BY <1>1, <1>2 DEF Fork, IInv, TypeOK, With
  <2>2. birth' \in [DOMAIN parent' -> Birth]
    BY <1>1, <1>3 DEF Fork, IInv, TypeOK, With
  <2> QED
    BY <1>0, <1>1, <1>15, <1>16, <2>1, <2>2 DEF IInv, TypeOK
<1>5. PidInv'
  BY <1>1 DEF IInv, PidInv
<1>6. \A q : LiveOutsider(q) => LiveOutsider(q)'
  BY <1>1 DEF LiveOutsider
<1>7. OutsiderInv'
  <2>1. birth'[Self].who = "self" /\ birth'[1].who \in Outsider
    BY <1>1 DEF IInv, OutsiderInv, PidInv
  <2>2. ASSUME NEW q \in DOMAIN parent, birth'[q].who \in Outsider
        PROVE  (parent[q] = 0 \/ LiveOutsider(parent[q]))'
    <3>1. parent[q] = 0 \/ LiveOutsider(parent[q])
      BY <1>1, <2>2 DEF IInv, OutsiderInv
    <3>2. parent'[q] = parent[q]
      BY <1>1
    <3> QED
      BY <3>1, <3>2, <1>6
  <2>3. birth'[c].who \in Outsider => LiveOutsider(parent[c])'
    <3>1. birth[p].who \in {"self", "helper"} \/ birth[p].who \in Outsider
      BY <1>2 DEF Birth, Outsider
    <3>2. birth'[p] = birth[p] /\ p \in DOMAIN parent' /\ parent'[c] = p
      BY <1>1
    <3>3. birth[p].who \in {"self", "helper"} => birth'[c].who = "helper"
      BY <1>1
    <3> QED
      BY <3>1, <3>2, <3>3 DEF LiveOutsider, Outsider
  <2> QED
    BY <1>1, <2>1, <2>2, <2>3 DEF OutsiderInv
<1>8. c # Self
  BY <1>1 DEF IInv, PidInv
<1>9. \A q \in DOMAIN parent' : WhitelistInv(q, birth[q])'
  <2>1. \A q \in DOMAIN parent : WhitelistInv(q, birth[q])'
    BY <1>1 DEF IInv, WhitelistInv, whitelist
  <2>2. WhitelistInv(c, birth[c])'
    BY <1>8 DEF WhitelistInv, whitelist
  <2> QED
    BY <1>1, <2>1, <2>2
<1>10. ChainInv'
  <2>1. birth'[1].chain = {} /\ birth'[Self].chain = {}
    BY <1>1 DEF IInv, ChainInv, PidInv
  <2>2. ASSUME NEW q \in DOMAIN parent, birth'[q].chain # {}
        PROVE  Linked(q)'
    <3>1. Linked(q)
      BY <1>1, <2>2 DEF IInv, ChainInv
    <3>2. parent'[q] = parent[q] /\ birth'[q] = birth[q]
      BY <1>1
    <3>3. parent[q] \in DOMAIN parent => birth'[parent[q]] = birth[parent[q]]
      BY <1>1
    <3> QED
      BY <1>1, <3>1, <3>2, <3>3 DEF Linked
  <2>3. ASSUME birth'[c].chain # {}
        PROVE  Linked(c)'
    <3>1. birth'[c].chain = birth[p].chain \cup {c}
      BY <1>1, <2>3
    <3>2. CASE p = Self
      BY <1>1, <3>1, <3>2 DEF IInv, ChainInv, PidInv, Linked
    <3>3. CASE p # Self
      <4>1. birth[p].chain # {}
        BY <1>1, <2>3, <3>3
      <4>2. Linked(p)
        BY <4>1 DEF IInv, ChainInv
      <4>3. parent'[c] = p /\ birth'[p] = birth[p] /\ p \in DOMAIN parent'
        BY <1>1
      <4>4. c \notin birth[p].chain /\ birth[p].chain \subseteq DOMAIN parent'
        BY <1>1, <4>2 DEF Linked
      <4> QED
        BY <1>1, <3>1, <4>1, <4>3, <4>4 DEF Linked
    <3> QED
      BY <3>2, <3>3
  <2> QED
    BY <1>1, <2>1, <2>2, <2>3 DEF ChainInv
<1>11. /\ \A g, q : OutsiderAt(g, q) => OutsiderAt(g \cup {c}, q)'
       /\ \A q : q # c => \A g : OutsiderAt(g, q) => OutsiderAt(g, q)'
  BY <1>1, <1>6 DEF OutsiderAt
<1>12. ASSUME NEW r, NEW s, RecordInv(r),
              s.pid = r.pid, s.birth = r.birth, s.given = r.given \cup {c}
       PROVE  /\ Self \notin s.given
              /\ s.pid \in whitelist /\ s.birth.who = "other" => s.pid = Tree[Self]
              /\ s.birth.who = "other" => OutsiderAt(s.given, s.pid)'
              /\ s.birth.chain # {} => s.pid \in DOMAIN parent' /\ birth'[s.pid] = s.birth
  BY <1>1, <1>8, <1>11, <1>12 DEF RecordInv, WhitelistInv
<1>13. \A i \in 1 .. Len(records') : RecordInv(records[i])'
  <2> SUFFICES ASSUME NEW i \in 1 .. Len(records')
               PROVE  RecordInv(records[i])'
    OBVIOUS
  <2>1. i \in 1 .. Len(records) /\ RecordInv(records[i])
    BY <1>15 DEF IInv
  <2>2. /\ Self \notin records'[i].given
        /\ records'[i].pid \in whitelist /\ records'[i].birth.who = "other" =>
              records'[i].pid = Tree[Self]
        /\ records'[i].birth.who = "other" => OutsiderAt(records[i].given, records[i].pid)'
        /\ records'[i].birth.chain # {} =>
              records'[i].pid \in DOMAIN parent' /\ birth'[records'[i].pid] = records'[i].birth
    BY <1>12, <1>15, <2>1
  <2> QED
    BY <2>2 DEF RecordInv, WhitelistInv, whitelist
<1>14. CASE pc = "walk"
  <2>1. Self \notin rec'.given
    BY <1>8, <1>14, <1>16 DEF IInv, WalkInv
  <2>4. rec'.birth.who = "other" =>
          seen' \cap rec'.given # {} \/ OutsiderAt(rec.given, current)'
    <3>1. rec.birth.who = "other" =>
            seen \cap rec.given # {} \/ OutsiderAt(rec.given, current)
      BY <1>14 DEF IInv, WalkInv
    <3>2. OutsiderAt(rec.given, current) => OutsiderAt(rec.given, current)'
      <4>1. rec'.given = rec.given \cup {c} /\ current' = current
        BY <1>0, <1>14, <1>16
      <4> QED
        BY <1>1, <1>6, <4>1 DEF OutsiderAt
    <3> QED
      BY <1>0, <1>14, <1>16, <3>1, <3>2
  <2>5. WalkInv'
    <3>1. rec'.birth.chain # {} =>
              /\ Self \notin seen'
              /\ \/ current' = Self
                 \/ /\ current' \in DOMAIN parent'
                    /\ birth'[current'].chain # {}
                    /\ birth'[current'].chain \subseteq rec'.birth.chain
                    /\ seen' \cap birth'[current'].chain = {}
      BY <1>0, <1>1, <1>14, <1>16 DEF IInv, WalkInv
    <3> QED
      BY <2>1, <2>4, <3>1 DEF WalkInv
  <2> QED
    BY <1>0, <1>4, <1>5, <1>7, <1>9, <1>10, <1>13, <1>14, <2>5
    DEF IInv, OutsiderAlerted, LiveHelperIgnored
<1>17. CASE pc # "walk"
  <2>1. rec' = rec /\ ~ (pc' = "walk")
    BY <1>0, <1>16, <1>17
  <2>2. WalkInv' /\ OutsiderAlerted' /\ LiveHelperIgnored'
    BY <1>0, <2>1 DEF IInv, WalkInv, OutsiderAlerted, LiveHelperIgnored
  <2> QED
    BY <1>4, <1>5, <1>7, <1>9, <1>10, <1>13, <2>2 DEF IInv
<1> QED
  BY <1>14, <1>17

(* The chains that do not hold the process that exits survive it, in the   *)
(* tree and in the records; the others are given up everywhere at once.    *)
LEMMA ExitStep ==
    ASSUME IInv, NEW x \in DOMAIN parent, Exit(x)
    PROVE  IInv'
<1>0. /\ UNCHANGED <<pc, current, seen>>
      /\ x # 1 /\ x # Self
  BY DEF Exit
<1>1. /\ DOMAIN parent' = DOMAIN parent \ {x}
      /\ DOMAIN birth' = DOMAIN parent \ {x}
      /\ \A q \in DOMAIN parent' :
            /\ parent'[q] = IF parent[q] = x THEN 1 ELSE parent[q]
            /\ birth'[q] = Broken(birth[q], x)
            /\ q \in DOMAIN parent
  BY DEF Exit, IInv, TypeOK
<1>2. /\ \A q \in DOMAIN parent : birth[q] \in Birth
      /\ DOMAIN parent \subseteq Pid
      /\ rec \in Record
      /\ 1 \in DOMAIN parent' /\ Self \in DOMAIN parent'
  BY <1>0, <1>1 DEF IInv, TypeOK, PidInv
<1>3. \A q \in DOMAIN parent' :
          /\ birth'[q] \in Birth
          /\ birth'[q].who = birth[q].who
          /\ x \in birth[q].chain => birth'[q].chain = {}
          /\ x \notin birth[q].chain => birth'[q] = birth[q]
  BY <1>1, <1>2, BrokenBirth
<1>4. Len(records') = Len(records) /\ records' \in Seq(Record)
      /\ \A i \in 1 .. Len(records) :
            /\ records[i] \in Record
            /\ records'[i].pid = records[i].pid
            /\ records'[i].birth = Broken(records[i].birth, x)
            /\ records'[i].given = records[i].given
  <2>1. DOMAIN records = 1 .. Len(records) /\ Len(records) \in Nat
    BY LenProperties DEF IInv, TypeOK
  <2>2. \A i \in 1 .. Len(records) : records[i] \in Record
    BY ElementOfSeq DEF IInv, TypeOK
  <2>3. records' = [i \in 1 .. Len(records) |->
                      [records[i] EXCEPT !.birth = Broken(@, x)]]
    BY <2>1 DEF Exit
  <2>4. ASSUME NEW i \in 1 .. Len(records)
        PROVE  /\ records'[i].pid = records[i].pid
               /\ records'[i].birth = Broken(records[i].birth, x)
               /\ records'[i].given = records[i].given
               /\ records'[i] \in Record
    <3>1. records'[i] = [records[i] EXCEPT !.birth = Broken(records[i].birth, x)]
      BY <2>3
    <3>2. records[i].birth \in Birth
      BY <2>2 DEF Record
    <3>3. Broken(records[i].birth, x) \in Birth
      BY <3>2, BrokenBirth
    <3> QED
      BY <2>2, <3>1, <3>3 DEF Record
  <2>5. records' \in [1 .. Len(records) -> Record]
    BY <2>3, <2>4
  <2>6. records' \in Seq(Record)
    BY <2>1, <2>5, SeqDef
  <2>7. Len(records') = Len(records)
    <3>1. DOMAIN records' = 1 .. Len(records) /\ DOMAIN records' = 1 .. Len(records')
          /\ Len(records') \in Nat
      BY <2>5, <2>6, LenProperties
    <3> QED
      BY <2>1, <3>1
  <2> QED
    BY <2>2, <2>4, <2>6, <2>7
<1>5. /\ rec' \in Record /\ rec'.pid = rec.pid /\ rec'.given = rec.given
      /\ rec'.birth = Broken(rec.birth, x)
  <2>1. rec' = [rec EXCEPT !.birth = Broken(rec.birth, x)]
    BY DEF Exit
  <2>2. Broken(rec.birth, x) \in Birth
    BY <1>2, BrokenBirth DEF Record
  <2> QED
    BY <1>2, <2>1, <2>2 DEF Record
<1>6. TypeOK'
  <2>1. parent' \in [DOMAIN parent' -> Pid \cup {0}]
    BY <1>1 DEF Exit, IInv, TypeOK
  <2>2. birth' \in [DOMAIN parent' -> Birth]
    BY <1>1, <1>3 DEF Exit
  <2> QED
    BY <1>0, <1>1, <1>2, <1>4, <1>5, <2>1, <2>2 DEF IInv, TypeOK
<1>7. PidInv'
  BY <1>0, <1>1 DEF IInv, PidInv
<1>8. \A q : LiveOutsider(q) => q = x \/ LiveOutsider(q)'
  BY <1>1, <1>3 DEF LiveOutsider
<1>9. OutsiderInv'
  <2>1. birth'[Self].who = "self" /\ birth'[1].who \in Outsider
    BY <1>2, <1>3 DEF IInv, OutsiderInv
  <2>2. ASSUME NEW q \in DOMAIN parent', birth'[q].who \in Outsider
        PROVE  (parent[q] = 0 \/ LiveOutsider(parent[q]))'
    <3>1. parent[q] = 0 \/ LiveOutsider(parent[q])
      BY <1>1, <1>3, <2>2 DEF IInv, OutsiderInv
    <3>2. CASE parent[q] = x
      <4>1. parent'[q] = 1
        BY <1>1, <3>2
      <4> QED
        BY <1>2, <2>1, <4>1 DEF LiveOutsider
    <3>3. CASE parent[q] # x
      <4>1. parent'[q] = parent[q]
        BY <1>1, <3>3
      <4> QED
        BY <1>8, <3>1, <3>3, <4>1
    <3> QED
      BY <3>2, <3>3
  <2> QED
    BY <2>1, <2>2 DEF OutsiderInv
<1>10. \A q \in DOMAIN parent' : WhitelistInv(q, birth[q])'
  BY <1>0, <1>1, <1>3 DEF IInv, WhitelistInv, whitelist
<1>11. ChainInv'
  <2>1. birth'[1].chain = {} /\ birth'[Self].chain = {}
    BY <1>2, <1>3 DEF IInv, ChainInv
  <2>2. ASSUME NEW q \in DOMAIN parent', birth'[q].chain # {}
        PROVE  Linked(q)'
    <3>1. x \notin birth[q].chain /\ birth'[q] = birth[q] /\ q \in DOMAIN parent
      BY <1>1, <1>3, <2>2
    <3>2. Linked(q)
      BY <2>2, <3>1 DEF IInv, ChainInv
    <3>3. birth'[q].chain \subseteq DOMAIN parent'
      BY <1>1, <3>1, <3>2 DEF Linked
    <3>4. CASE parent[q] = Self /\ birth[q].chain = {q}
      <4>1. parent'[q] = Self
        BY <1>0, <1>1, <3>4
      <4> QED
        BY <3>1, <3>2, <3>3, <3>4, <4>1 DEF Linked
    <3>5. CASE /\ parent[q] \in DOMAIN parent
               /\ birth[parent[q]].chain # {}
               /\ q \notin birth[parent[q]].chain
               /\ birth[q].chain = birth[parent[q]].chain \cup {q}
      <4>1. Linked(parent[q])
        BY <3>5 DEF IInv, ChainInv
      <4>2. parent[q] # x /\ x \notin birth[parent[q]].chain
        BY <3>1, <3>5, <4>1 DEF Linked
      <4>3. parent'[q] = parent[q] /\ parent[q] \in DOMAIN parent'
        BY <1>1, <3>5, <4>2
      <4>4. birth'[parent[q]] = birth[parent[q]]
        BY <1>3, <4>2, <4>3
      <4> QED
        BY <3>1, <3>2, <3>3, <3>5, <4>3, <4>4 DEF Linked
    <3> QED
      BY <3>2, <3>4, <3>5 DEF Linked
  <2> QED
    BY <2>1, <2>2 DEF ChainInv
<1>12. \A g, q : OutsiderAt(g, q) => OutsiderAt(g, q)'
  BY <1>1, <1>8 DEF OutsiderAt
<1>13. ASSUME NEW r \in Record, NEW s, RecordInv(r),
              s.pid = r.pid, s.given = r.given, s.birth = Broken(r.birth, x)
       PROVE  /\ Self \notin s.given
              /\ s.pid \in whitelist /\ s.birth.who = "other" => s.pid = Tree[Self]
              /\ s.birth.who = "other" => OutsiderAt(s.given, s.pid)'
              /\ s.birth.chain # {} => s.pid \in DOMAIN parent' /\ birth'[s.pid] = s.birth
  <2>0. r.birth \in Birth
    BY DEF Record
  <2>1. s.birth.who = r.birth.who
    BY <1>13, <2>0, BrokenBirth
  <2>2. ASSUME s.birth.chain # {}
        PROVE  s.pid \in DOMAIN parent' /\ birth'[s.pid] = s.birth
    <3>1. x \notin r.birth.chain /\ s.birth = r.birth
      BY <1>13, <2>0, <2>2, BrokenBirth
    <3>2. r.pid \in DOMAIN parent /\ birth[r.pid] = r.birth
      BY <1>13, <2>2, <3>1 DEF RecordInv
    <3>3. r.pid \in r.birth.chain
      BY <2>2, <3>1, <3>2 DEF IInv, ChainInv, Linked
    <3>4. r.pid # x
      BY <3>1, <3>3
    <3> QED
      BY <1>1, <1>3, <1>13, <3>1, <3>2, <3>4
  <2> QED
    BY <1>0, <1>12, <1>13, <2>1, <2>2 DEF RecordInv, WhitelistInv
<1>15. ASSUME NEW i \in 1 .. Len(records')
       PROVE  RecordInv(records[i])'
  <2>0. i \in 1 .. Len(records) /\ RecordInv(records[i])
    BY <1>4 DEF IInv
  <2>1. /\ Self \notin records'[i].given
        /\ records'[i].pid \in whitelist /\ records'[i].birth.who = "other" =>
              records'[i].pid = Tree[Self]
        /\ records'[i].birth.who = "other" => OutsiderAt(records[i].given, records[i].pid)'
        /\ records'[i].birth.chain # {} =>
              records'[i].pid \in DOMAIN parent' /\ birth'[records'[i].pid] = records'[i].birth
    BY <1>4, <1>13, <2>0
  <2> QED
    BY <2>1 DEF RecordInv, WhitelistInv, whitelist
<1>16. /\ rec'.birth.who = rec.birth.who
       /\ rec'.birth.chain # {} => rec'.birth = rec.birth /\ x \notin rec.birth.chain
       /\ rec.birth.chain = {} => rec'.birth.chain = {}
  <2>1. rec.birth \in Birth
    BY <1>2 DEF Record
  <2> QED
    BY <1>5, <2>1, BrokenBirth
<1>17. WalkInv'
  <2> SUFFICES ASSUME pc = "walk"
               PROVE  WalkInv'
    BY <1>0 DEF WalkInv
  <2>1. /\ Self \notin rec'.given
        /\ rec'.birth.who = "other" =>
              seen' \cap rec'.given # {} \/ OutsiderAt(rec.given, current)'
    <3>1. /\ Self \notin rec.given
          /\ rec.birth.who = "other" =>
                seen \cap rec.given # {} \/ OutsiderAt(rec.given, current)
      BY DEF IInv, WalkInv
    <3>2. OutsiderAt(rec.given, current) => OutsiderAt(rec.given, current)'
      BY <1>0, <1>1, <1>5, <1>8 DEF OutsiderAt
    <3> QED
      BY <1>0, <1>5, <1>16, <3>1, <3>2
  <2>2. ASSUME rec'.birth.chain # {}
        PROVE  /\ Self \notin seen
               /\ \/ current = Self
                  \/ /\ current \in DOMAIN parent'
                     /\ birth'[current].chain # {}
                     /\ birth'[current].chain \subseteq rec'.birth.chain
                     /\ seen \cap birth'[current].chain = {}
    <3>1. rec'.birth = rec.birth /\ x \notin rec.birth.chain
      BY <1>16, <2>2
    <3>2. /\ Self \notin seen
          /\ \/ current = Self
             \/ /\ current \in DOMAIN parent
                /\ birth[current].chain # {}
                /\ birth[current].chain \subseteq rec.birth.chain
                /\ seen \cap birth[current].chain = {}
      BY <2>2, <3>1 DEF IInv, WalkInv
    <3>3. CASE current = Self
      BY <3>2, <3>3
    <3>4. CASE current # Self
      <4>1. x \notin birth[current].chain
        BY <3>1, <3>2, <3>4
      <4>2. current \in birth[current].chain
        BY <3>2, <3>4 DEF IInv, ChainInv, Linked
      <4>3. current \in DOMAIN parent' /\ birth'[current] = birth[current]
        BY <1>1, <1>3, <3>2, <3>4, <4>1, <4>2
      <4> QED
        BY <3>1, <3>2, <3>4, <4>3
    <3> QED
      BY <3>3, <3>4
  <2> QED
    BY <1>0, <2>1, <2>2 DEF WalkInv
<1>18. OutsiderAlerted' /\ LiveHelperIgnored'
  BY <1>0, <1>5, <1>16 DEF IInv, OutsiderAlerted, LiveHelperIgnored
<1> QED
  BY <1>6, <1>7, <1>9, <1>10, <1>11, <1>15, <1>17, <1>18 DEF IInv

-----------------------------------------------------------------------------
(* The watcher. *)

(* The invariants of the process tree only depend on the tree. *)
LEMMA TreeUnchanged ==
    ASSUME IInv, UNCHANGED <<parent, birth>>
    PROVE  /\ PidInv'
           /\ OutsiderInv'
           /\ \A p \in DOMAIN parent' : WhitelistInv(p, birth[p])'
           /\ ChainInv'
           /\ \A r : RecordInv(r) => RecordInv(r)'
           /\ \A g, p : OutsiderAt(g, p) => OutsiderAt(g, p)'
<1>1. PidInv'
  BY DEF IInv, PidInv
<1>2. OutsiderInv'
  BY DEF IInv, OutsiderInv, LiveOutsider
<1>3. \A p \in DOMAIN parent' : WhitelistInv(p, birth[p])'
  BY DEF IInv, WhitelistInv, whitelist
<1>4. ChainInv'
  BY DEF IInv, ChainInv, Linked
<1>5. \A g, p : OutsiderAt(g, p) => OutsiderAt(g, p)'
  BY DEF OutsiderAt, LiveOutsider
<1>6. \A r : RecordInv(r) => RecordInv(r)'
  BY <1>5 DEF RecordInv, WhitelistInv, whitelist
<1> QED
  BY <1>1, <1>2, <1>3, <1>4, <1>5, <1>6

LEMMA RecordedStep ==
    ASSUME IInv, NEW p \in DOMAIN parent, on_sys_bpf(p)
    PROVE  IInv'
<1> DEFINE r == [pid |-> p, birth |-> birth[p], given |-> {}]
<1>1. /\ records' = Append(records, r)
      /\ UNCHANGED <<parent, birth, pc, rec, current, seen>>
  BY DEF on_sys_bpf
<1>2. r \in Record
  BY DEF IInv, TypeOK, Record
<1>3. records \in Seq(Record)
  BY DEF IInv, TypeOK
<1>4. /\ records' \in Seq(Record)
      /\ \A i \in 1 .. Len(records') :
            records'[i] = r \/ (i \in 1 .. Len(records) /\ records'[i] = records[i])
  <2> HIDE DEF r
  <2>1. Len(records) \in Nat
    BY <1>3, LenProperties
  <2>2. /\ records' \in Seq(Record)
        /\ Len(records') = Len(records) + 1
        /\ \A i \in 1 .. Len(records) : records'[i] = records[i]
        /\ records'[Len(records) + 1] = r
    BY <1>1, <1>2, <1>3, AppendProperties
  <2>3. \A i \in 1 .. Len(records') : i \in 1 .. Len(records) \/ i = Len(records) + 1
    BY <2>1, <2>2
  <2> QED
    BY <2>2, <2>3
<1>5. RecordInv(r)
  <2>1. OutsiderAt({}, p) \/ birth[p].who # "other"
    BY DEF OutsiderAt, LiveOutsider, Outsider
  <2> QED
    BY <2>1 DEF IInv, RecordInv
<1>6. TypeOK'
  BY <1>1, <1>4 DEF IInv, TypeOK
<1>7. \A i \in 1 .. Len(records') : RecordInv(records[i])'
  <2>1. \A i \in 1 .. Len(records') : RecordInv(records'[i])
    BY <1>4, <1>5 DEF IInv
  <2>2. UNCHANGED <<parent, birth>>
    BY <1>1
  <2> QED
    BY <2>1, <2>2 DEF RecordInv, WhitelistInv, whitelist, OutsiderAt, LiveOutsider
<1>8. WalkInv' /\ OutsiderAlerted' /\ LiveHelperIgnored'
  BY <1>1 DEF IInv, OutsiderAt, LiveOutsider, WalkInv, OutsiderAlerted, LiveHelperIgnored
<1> QED
  BY <1>1, <1>6, <1>7, <1>8, TreeUnchanged DEF IInv

LEMMA HandleEventStep ==
    ASSUME IInv, handle_event
    PROVE  IInv'
<1>1. /\ records # <<>>
      /\ rec' = Head(records)
      /\ records' = Tail(records)
      /\ pc' = IF rec'.pid \in whitelist THEN "ignored" ELSE "walk"
      /\ current' = rec'.pid
      /\ seen' = {}
      /\ UNCHANGED <<parent, birth>>
  BY DEF handle_event
<1>2. records \in Seq(Record) /\ Len(records) \in Nat \ {0} /\ 1 \in 1 .. Len(records)
  <2>1. records \in Seq(Record)
    BY DEF IInv, TypeOK
  <2>2. Len(records) \in Nat \ {0}
    BY <1>1, <2>1, EmptySeq
  <2> QED
    BY <2>1, <2>2
<1>3. rec' = records[1] /\ rec' \in Record
  BY <1>1, <1>2, ElementOfSeq
<1>4. /\ records' \in Seq(Record)
      /\ \A i \in 1 .. Len(records') :
            i + 1 \in 1 .. Len(records) /\ records'[i] = records[i + 1]
  BY <1>1, <1>2, HeadTailProperties
<1>5. RecordInv(records[1]) /\ \A i \in 1 .. Len(records') : RecordInv(records'[i])
  <2>1. \A i \in 1 .. Len(records) : RecordInv(records[i])
    BY DEF IInv
  <2> QED
    BY <1>2, <1>4, <2>1
<1>6. \A i \in 1 .. Len(records') : RecordInv(records[i])'
  BY <1>1, <1>5 DEF RecordInv, WhitelistInv, whitelist, OutsiderAt, LiveOutsider
<1>7. TypeOK'
  <2>1. rec'.pid \in Pid
    BY <1>3 DEF Record
  <2> QED
    BY <1>1, <1>3, <1>4, <2>1 DEF IInv, TypeOK
<1>8. WalkInv'
  <2>1. /\ Self \notin rec'.given
        /\ rec'.birth.who = "other" => OutsiderAt(rec.given, current)'
    BY <1>1, <1>3, <1>5 DEF RecordInv, OutsiderAt, LiveOutsider
  <2>2. rec'.birth.chain # {} =>
          /\ current' \in DOMAIN parent'
          /\ birth'[current'] = rec'.birth
    BY <1>1, <1>3, <1>5 DEF RecordInv
  <2> QED
    BY <1>1, <2>1, <2>2 DEF WalkInv
<1>9. OutsiderAlerted'
  BY <1>1, <1>3, <1>5 DEF OutsiderAlerted, RecordInv, WhitelistInv, whitelist
<1>10. LiveHelperIgnored'
  BY <1>1 DEF LiveHelperIgnored
<1> QED
  BY <1>1, <1>6, <1>7, <1>8, <1>9, <1>10, TreeUnchanged DEF IInv

(* One turn of the walk: on an intact chain it cannot be at the top or     *)
(* lose its way; an outsider's walk cannot be at this program.             *)
LEMMA WalkStep ==
    ASSUME IInv, is_descendant_of_self
    PROVE  IInv'
<1>1. /\ pc = "walk"
      /\ UNCHANGED <<parent, birth, records, rec>>
  BY DEF is_descendant_of_self
<1>2. \A i \in 1 .. Len(records') : RecordInv(records[i])'
  BY <1>1 DEF IInv, RecordInv, WhitelistInv, whitelist, OutsiderAt, LiveOutsider
<1>3. /\ Self \notin rec.given
      /\ rec.birth.who = "other" =>
            seen \cap rec.given # {} \/ OutsiderAt(rec.given, current)
      /\ rec.birth.chain # {} =>
            /\ Self \notin seen
            /\ \/ current = Self
               \/ /\ current \in DOMAIN parent
                  /\ birth[current].chain # {}
                  /\ birth[current].chain \subseteq rec.birth.chain
                  /\ seen \cap birth[current].chain = {}
  BY <1>1 DEF IInv, WalkInv
<1>4. rec.birth.chain # {} => ~ AtTop
  <2>1. ASSUME rec.birth.chain # {}, current # Self
        PROVE  current \notin {0, 1} /\ current \notin seen
    <3>1. current \in DOMAIN parent /\ birth[current].chain # {}
      BY <1>3, <2>1
    <3>2. Linked(current)
      BY <3>1 DEF IInv, ChainInv
    <3> QED
      BY <1>3, <2>1, <3>1, <3>2 DEF Linked, IInv, ChainInv, TypeOK
  <2> QED
    BY <1>3, <2>1 DEF AtTop
<1>5. ASSUME rec.birth.who = "other", current = Self
      PROVE  seen \cap rec.given # {}
  BY <1>3, <1>5 DEF OutsiderAt, LiveOutsider, Outsider, IInv, PidInv, OutsiderInv
<1>6. CASE pc' = "alerted" /\ UNCHANGED <<current, seen>> /\ (AtTop \/ current # Self)
             /\ (AtTop \/ current \notin DOMAIN parent)
  <2>1. rec.birth.chain = {}
    BY <1>3, <1>4, <1>6
  <2>2. TypeOK' /\ WalkInv' /\ OutsiderAlerted' /\ LiveHelperIgnored'
    BY <1>1, <1>6, <2>1 DEF IInv, TypeOK, WalkInv, OutsiderAlerted, LiveHelperIgnored
  <2> QED
    BY <1>1, <1>2, <2>2, TreeUnchanged DEF IInv
<1>7. CASE current = Self /\ pc' = "ignored" /\ UNCHANGED <<current, seen>>
  <2>1. TypeOK' /\ WalkInv' /\ OutsiderAlerted' /\ LiveHelperIgnored'
    BY <1>1, <1>5, <1>7 DEF IInv, TypeOK, WalkInv, OutsiderAlerted, LiveHelperIgnored
  <2> QED
    BY <1>1, <1>2, <2>1, TreeUnchanged DEF IInv
<1>8. CASE /\ ~ AtTop
           /\ current # Self
           /\ current \in DOMAIN parent
           /\ current' = parent[current]
           /\ seen' = seen \cup {current}
           /\ UNCHANGED pc
  <2>1. TypeOK'
    BY <1>1, <1>8 DEF IInv, TypeOK
  <2>2. ASSUME rec.birth.who = "other"
        PROVE  seen' \cap rec.given # {} \/ OutsiderAt(rec.given, current')
    <3>1. SUFFICES ASSUME seen' \cap rec.given = {}
                   PROVE  current' = 0 \/ LiveOutsider(current')
      BY DEF OutsiderAt
    <3>2. LiveOutsider(current)
      BY <1>3, <1>8, <2>2, <3>1 DEF OutsiderAt, AtTop
    <3> QED
      BY <1>8, <3>2 DEF IInv, OutsiderInv, LiveOutsider
  <2>3. ASSUME rec.birth.chain # {}
        PROVE  /\ Self \notin seen'
               /\ \/ current' = Self
                  \/ /\ current' \in DOMAIN parent
                     /\ birth[current'].chain # {}
                     /\ birth[current'].chain \subseteq rec.birth.chain
                     /\ seen' \cap birth[current'].chain = {}
    <3>1. Linked(current)
      BY <1>3, <1>8, <2>3 DEF IInv, ChainInv
    <3>2. CASE parent[current] = Self
      BY <1>3, <1>8, <2>3, <3>2
    <3>3. CASE parent[current] # Self
      BY <1>3, <1>8, <2>3, <3>1, <3>3 DEF Linked
    <3> QED
      BY <3>2, <3>3
  <2>4. WalkInv'
    BY <1>1, <1>3, <1>8, <2>2, <2>3 DEF WalkInv, OutsiderAt, LiveOutsider
  <2>5. OutsiderAlerted' /\ LiveHelperIgnored'
    BY <1>1, <1>8 DEF OutsiderAlerted, LiveHelperIgnored
  <2> QED
    BY <1>1, <1>2, <2>1, <2>4, <2>5, TreeUnchanged DEF IInv
<1> QED
  BY <1>6, <1>7, <1>8 DEF is_descendant_of_self, Missing

LEMMA HandledStep ==
    ASSUME IInv, handled
    PROVE  IInv'
<1>1. /\ pc' = "poll" /\ rec' = Idle /\ current' = 0 /\ seen' = {}
      /\ UNCHANGED <<parent, birth, records>>
  BY DEF handled
<1>2. Idle \in Record /\ Idle.birth.who = "self" /\ Idle.birth.chain = {}
  BY DEF Idle, Record, Birth
<1>3. TypeOK'
  BY <1>1, <1>2 DEF IInv, TypeOK
<1>5. \A i \in 1 .. Len(records') : RecordInv(records[i])'
  BY <1>1 DEF IInv, RecordInv, WhitelistInv, whitelist, OutsiderAt, LiveOutsider
<1>6. WalkInv' /\ OutsiderAlerted' /\ LiveHelperIgnored'
  BY <1>1 DEF WalkInv, OutsiderAlerted, LiveHelperIgnored
<1> QED
  BY <1>1, <1>3, <1>5, <1>6, TreeUnchanged DEF IInv

-----------------------------------------------------------------------------
(* The theorems. *)

(* Forks, exits and reads of /proc in any order keep IInv. *)
THEOREM Invariance == Spec => []IInv
<1>1. Init => IInv
  BY InitialInv
<1>2. ASSUME IInv, [Next]_vars
      PROVE  IInv'
  <2>1. CASE UNCHANGED vars
    <3>1. UNCHANGED <<parent, birth, records, pc, rec, current, seen>>
      BY <2>1 DEF vars
    <3> QED
      BY <1>2, <3>1
      DEF IInv, TypeOK, PidInv, OutsiderInv, LiveOutsider, WhitelistInv, whitelist,
          OutsiderAt, Linked, ChainInv, RecordInv, WalkInv, OutsiderAlerted, LiveHelperIgnored
  <2>2. CASE Step
    BY <1>2, <2>2, HandleEventStep, WalkStep, HandledStep DEF Step
  <2>3. ASSUME NEW p \in DOMAIN parent, Exit(p) \/ on_sys_bpf(p) \/ \E c \in Pid : Fork(p, c)
        PROVE  IInv'
    BY <1>2, <2>3, ExitStep, RecordedStep, ForkStep
  <2> QED
    BY <1>2, <2>1, <2>2, <2>3 DEF Next
<1> QED
  BY <1>1, <1>2, PTL DEF Spec

(* The variables have their types: a live process has a pid and a birth,   *)
(* and every record names a process with one.                              *)
THEOREM TypeCorrect == Spec => []TypeOK
BY Invariance, PTL DEF IInv

(* _handle_event never takes a call of a process outside the program's     *)
(* family for its own, whatever forks and exits between the reads of the   *)
(* walk, unless it has the shell's old pid or a pid on the walk has been   *)
(* given to a new process since the call.                                  *)
THEOREM OutsiderIsAlerted == Spec => []OutsiderAlerted
BY Invariance, PTL DEF IInv

(* The walk of _is_descendant_of_self never gives up on a helper whose     *)
(* line of parents up to this program is alive, not even when pids are     *)
(* reused around it: neither the set of pids seen nor a missing /proc      *)
(* entry can stop it short.                                                *)
THEOREM LiveHelperIsIgnored == Spec => []LiveHelperIgnored
BY Invariance, PTL DEF IInv

=============================================================================
