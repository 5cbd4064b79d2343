-------------------------- MODULE Migrations_proofs --------------------------
(***************************************************************************)
(* Migrations for any number of runners, in whatever directions, and any   *)
(* number of requests: the schema is whole, rows have a table to be in and *)
(* one key one row, and success means what it says.                        *)
(*                                                                         *)
(* A runner either does nothing or has a whole revision to commit, whose   *)
(* statements are done or still to do; the order of them does not matter.  *)
(* Who drops the table has it to itself, from its first statement on.      *)
(***************************************************************************)
EXTENDS Migrations, SequenceTheorems, TLAPS

Left(m) == {todo[m][i] : i \in DOMAIN todo[m]}

Creation == {Create(o) : o \in Whole}
Removal == {Drop(o) : o \in Whole}

Migrated == Whole \subseteq catalog \/ removed

\* What a runner that runs has done and has left to do.
PlansAreWhole ==
    \A m \in Runner : phase[m] = "running" =>
        \/ /\ Direction[m] = "upgrade"
           /\ Left(m) \cup done[m] \in {Creation, Creation \cup {Create("version table")}}
        \/ /\ Direction[m] = "upgrade"
           /\ Left(m) \cup done[m] = {}
           /\ Migrated
        \/ /\ Direction[m] = "downgrade"
           /\ Left(m) \cup done[m] = Removal

\* Whoever has no transaction has nothing done in it.
IdleHasDoneNothing ==
    \A m \in Runner : phase[m] \notin {"running", "dead"} => done[m] = {}

\* Those that use the table keep it, and who drops it keeps them out.
TableIsKept ==
    /\ locks \cup rows # {} => "table" \in catalog
    /\ \A m \in Runner : HasTable(m) => locks = {}

TasksAgreeWithServer ==
    \A r \in Request :
        /\ pc[r] \in {"insert", "commit"} => r \in locks
        /\ r \in locks => pc[r] \in {"insert", "commit", "exit", "dead"}
        /\ pc[r] = "commit" => r \in staged
        /\ r \in staged => pc[r] \in {"commit", "dead"}

RowsAreOne == \A q, r \in staged \cup rows : q = r

IInv ==
    /\ TypeOK
    /\ SchemaIsWhole
    /\ PlansAreWhole
    /\ IdleHasDoneNothing
    /\ SuccessMeansMigrated
    /\ TableIsKept
    /\ TasksAgreeWithServer
    /\ RowsAreOne

(***************************************************************************)
(* Facts about plans.                                                      *)
(***************************************************************************)

LEMMA Statements ==
    \A o \in Object : /\ Create(o) \in Statement /\ Drop(o) \in Statement
                      /\ Create(o).op = "create" /\ Create(o).object = o
                      /\ Drop(o).op = "drop" /\ Drop(o).object = o
BY DEF Create, Drop, Statement

\* One statement before others.
LEMMA Prefixed ==
    ASSUME NEW e \in Statement, NEW s \in Seq(Statement)
    PROVE  LET t == <<e>> \o s
           IN  /\ t \in Seq(Statement)
               /\ {t[i] : i \in DOMAIN t} = {s[i] : i \in DOMAIN s} \cup {e}
<1> DEFINE t == <<e>> \o s
<1>1. <<e>> \in Seq(Statement) /\ Len(<<e>>) = 1 /\ <<e>>[1] = e
  OBVIOUS
<1>2. /\ t \in Seq(Statement)
      /\ Len(t) = 1 + Len(s)
      /\ \A i \in 1 .. 1 + Len(s) : t[i] = IF i <= 1 THEN <<e>>[i] ELSE s[i - 1]
  BY <1>1, ConcatProperties
<1> HIDE DEF t
<1>3. Len(s) \in Nat /\ DOMAIN s = 1..Len(s) /\ DOMAIN t = 1..Len(t)
  BY <1>2, LenProperties
<1>4. 1 \in DOMAIN t /\ t[1] = e
  BY <1>1, <1>2, <1>3
<1>5. \A i \in DOMAIN s : i+1 \in DOMAIN t /\ t[i+1] = s[i]
  BY <1>2, <1>3
<1>6. \A i \in DOMAIN t : i = 1 \/ (i-1 \in DOMAIN s /\ t[i] = s[i-1])
  BY <1>2, <1>3
<1>7. ASSUME NEW i \in DOMAIN t PROVE t[i] \in {s[j] : j \in DOMAIN s} \cup {e}
  BY <1>4, <1>6
<1>8. ASSUME NEW i \in DOMAIN s PROVE s[i] \in {t[j] : j \in DOMAIN t}
  BY <1>5
<1>9. e \in {t[j] : j \in DOMAIN t}
  BY <1>4
<1> QED
  BY <1>2, <1>7, <1>8, <1>9 DEF t

\* Four statements.
LEMMA Listed ==
    ASSUME NEW a \in Statement, NEW b \in Statement, NEW c \in Statement,
           NEW d \in Statement
    PROVE  LET s == <<a, b, c, d>>
           IN  s \in Seq(Statement) /\ {s[i] : i \in DOMAIN s} = {a, b, c, d}
<1> DEFINE s == <<a, b, c, d>>
<1>1. s \in Seq(Statement)
  OBVIOUS
<1>2. DOMAIN s = 1..4 /\ s[1] = a /\ s[2] = b /\ s[3] = c /\ s[4] = d
  OBVIOUS
<1>3. \A i : i \in 1..4 <=> i \in {1, 2, 3, 4}
  OBVIOUS
<1> QED
  BY <1>1, <1>2, <1>3

\* The statements of the two scripts, and of one that begins with the version table.
LEMMA Scripts ==
    LET ensured == <<Create("version table")>> \o Upgrade
    IN  /\ Upgrade \in Seq(Statement) /\ Downgrade \in Seq(Statement)
        /\ ensured \in Seq(Statement)
        /\ {Upgrade[i] : i \in DOMAIN Upgrade} = Creation
        /\ {Downgrade[i] : i \in DOMAIN Downgrade} = Removal
        /\ {ensured[i] : i \in DOMAIN ensured} = Creation \cup {Create("version table")}
<1>0. \A o \in {"version table", "table", "indexes", "unique index", "revision"} :
          Create(o) \in Statement /\ Drop(o) \in Statement
  BY Statements DEF Object
<1>1. /\ Upgrade \in Seq(Statement)
      /\ {Upgrade[i] : i \in DOMAIN Upgrade}
           = {Create("table"), Create("indexes"), Create("unique index"), Create("revision")}
  <2> DEFINE a == Create("table")  b == Create("indexes")
             c == Create("unique index")  d == Create("revision")
  <2>1. a \in Statement /\ b \in Statement /\ c \in Statement /\ d \in Statement
    BY <1>0
  <2> HIDE DEF a, b, c, d
  <2>2. LET s == <<a, b, c, d>>
        IN  s \in Seq(Statement) /\ {s[i] : i \in DOMAIN s} = {a, b, c, d}
    BY <2>1, Listed
  <2> QED
    BY <2>2 DEF Upgrade, a, b, c, d
<1>2. /\ Downgrade \in Seq(Statement)
      /\ {Downgrade[i] : i \in DOMAIN Downgrade}
           = {Drop("unique index"), Drop("indexes"), Drop("table"), Drop("revision")}
  <2> DEFINE a == Drop("unique index")  b == Drop("indexes")
             c == Drop("table")  d == Drop("revision")
  <2>1. a \in Statement /\ b \in Statement /\ c \in Statement /\ d \in Statement
    BY <1>0
  <2> HIDE DEF a, b, c, d
  <2>2. LET s == <<a, b, c, d>>
        IN  s \in Seq(Statement) /\ {s[i] : i \in DOMAIN s} = {a, b, c, d}
    BY <2>1, Listed
  <2> QED
    BY <2>2 DEF Downgrade, a, b, c, d
<1>3. /\ Creation = {Create("table"), Create("indexes"), Create("unique index"),
                     Create("revision")}
      /\ Removal = {Drop("unique index"), Drop("indexes"), Drop("table"), Drop("revision")}
  BY DEF Creation, Removal, Whole
<1>4. LET t == <<Create("version table")>> \o Upgrade
      IN  /\ t \in Seq(Statement)
          /\ {t[i] : i \in DOMAIN t}
              = {Upgrade[i] : i \in DOMAIN Upgrade} \cup {Create("version table")}
  <2>1. Create("version table") \in Statement /\ Upgrade \in Seq(Statement)
    BY <1>0, <1>1
  <2> QED
    BY <2>1, Prefixed
<1> QED
  BY <1>1, <1>2, <1>3, <1>4

\* To run the first statement moves it over.
LEMMA HeadIsLeft ==
    ASSUME TypeOK, NEW m \in Runner, todo[m] # <<>>
    PROVE  /\ Current(m) \in Statement /\ Tail(todo[m]) \in Seq(Statement)
           /\ Left(m) = {Current(m)} \cup {Tail(todo[m])[i] : i \in DOMAIN Tail(todo[m])}
<1> DEFINE s == todo[m]
<1>1. s \in Seq(Statement) /\ s # <<>>
  BY DEF TypeOK
<1>2. /\ Head(s) \in Statement /\ Tail(s) \in Seq(Statement)
      /\ Len(Tail(s)) = Len(s) - 1
      /\ \A i \in 1 .. Len(Tail(s)) : Tail(s)[i] = s[i+1]
      /\ Head(s) = s[1]
  BY <1>1, HeadTailProperties
<1>3. Len(s) \in Nat \ {0} /\ DOMAIN s = 1..Len(s) /\ DOMAIN Tail(s) = 1..Len(Tail(s))
  BY <1>1, <1>2, LenProperties, EmptySeq
<1>4. \A i \in DOMAIN s : i = 1 \/ (i-1 \in DOMAIN Tail(s) /\ s[i] = Tail(s)[i-1])
  BY <1>2, <1>3
<1>5. \A i \in DOMAIN Tail(s) : i+1 \in DOMAIN s /\ Tail(s)[i] = s[i+1]
  BY <1>2, <1>3
<1>6. {s[i] : i \in DOMAIN s} = {Head(s)} \cup {Tail(s)[i] : i \in DOMAIN Tail(s)}
  <2>1. 1 \in DOMAIN s
    BY <1>3
  <2> HIDE DEF s
  <2>2. ASSUME NEW i \in DOMAIN s
        PROVE  s[i] \in {Head(s)} \cup {Tail(s)[j] : j \in DOMAIN Tail(s)}
    BY <1>2, <1>4
  <2>3. ASSUME NEW i \in DOMAIN Tail(s) PROVE Tail(s)[i] \in {s[j] : j \in DOMAIN s}
    BY <1>5
  <2>4. Head(s) \in {s[j] : j \in DOMAIN s}
    BY <1>2, <2>1
  <2> QED
    BY <2>2, <2>3, <2>4
<1> QED
  BY <1>2, <1>6 DEF Left, Current

\* What a runner that has nothing left has done.
LEMMA DoneIsPlan ==
    ASSUME IInv, NEW m \in Runner, phase[m] = "running", todo[m] = <<>>
    PROVE  \/ /\ Direction[m] = "upgrade"
              /\ Whole \subseteq Created(m) /\ Created(m) \subseteq Object
              /\ Dropped(m) = {}
           \/ /\ Direction[m] = "upgrade"
              /\ Created(m) = {} /\ Dropped(m) = {} /\ Migrated
           \/ /\ Direction[m] = "downgrade"
              /\ Created(m) = {} /\ Dropped(m) = Whole /\ HasTable(m)
<1>1. Left(m) = {}
  BY DEF Left
<1>2. Whole \subseteq Object /\ "version table" \in Object /\ "unique index" \in Whole
  BY DEF Whole, Object
<1>3. CASE /\ Direction[m] = "upgrade"
           /\ done[m] \in {Creation, Creation \cup {Create("version table")}}
  <2>1. ASSUME NEW d \in done[m] PROVE d.op = "create" /\ d.object \in Object
    <3>1. PICK o \in Object : d = Create(o)
      BY <1>2, <1>3 DEF Creation
    <3> QED
      BY <3>1, Statements
  <2>2. \A o \in Whole : Create(o) \in done[m]
    BY <1>3 DEF Creation
  <2>3. ASSUME NEW o \in Whole PROVE o \in Created(m)
    <3>1. Create(o) \in done[m] /\ Create(o).op = "create" /\ Create(o).object = o
      BY <1>2, <2>2, Statements
    <3> QED
      BY <3>1, Zenon DEF Created
  <2>4. Created(m) \subseteq Object /\ Dropped(m) = {}
    BY <2>1 DEF Created, Dropped
  <2> QED
    BY <1>3, <2>3, <2>4
<1>4. CASE Direction[m] = "upgrade" /\ done[m] = {} /\ Migrated
  BY <1>4 DEF Created, Dropped
<1>5. CASE Direction[m] = "downgrade" /\ done[m] = Removal
  <2>1. ASSUME NEW d \in done[m] PROVE d.op = "drop" /\ d.object \in Whole
    <3>1. PICK o \in Whole : d = Drop(o)
      BY <1>5 DEF Removal
    <3> QED
      BY <1>2, <3>1, Statements
  <2>2. \A o \in Whole : Drop(o) \in done[m]
    BY <1>5 DEF Removal
  <2>3. ASSUME NEW o \in Whole PROVE o \in Dropped(m)
    <3>1. Drop(o) \in done[m] /\ Drop(o).op = "drop" /\ Drop(o).object = o
      BY <1>2, <2>2, Statements
    <3> QED
      BY <3>1, Zenon DEF Dropped
  <2>4. Created(m) = {} /\ Dropped(m) \subseteq Whole
    BY <2>1 DEF Created, Dropped
  <2> QED
    BY <1>2, <1>5, <2>2, <2>3, <2>4 DEF HasTable, Drops
<1> QED
  BY <1>1, <1>3, <1>4, <1>5 DEF IInv, PlansAreWhole

(***************************************************************************)
(* The runners' steps.                                                     *)
(***************************************************************************)

LEMMA InitIInv == Init => IInv
<1> SUFFICES ASSUME Init PROVE IInv
  OBVIOUS
<1>1. TypeOK
  <2>1. <<>> \in Seq(Statement)
    BY EmptySeq
  <2> QED
    BY <2>1 DEF Init, TypeOK, Phase, Pc
<1>2. SchemaIsWhole /\ PlansAreWhole /\ IdleHasDoneNothing /\ SuccessMeansMigrated
  BY DEF Init, SchemaIsWhole, PlansAreWhole, IdleHasDoneNothing, SuccessMeansMigrated
<1>3. TableIsKept /\ TasksAgreeWithServer /\ RowsAreOne
  BY DEF Init, TableIsKept, HasTable, TasksAgreeWithServer, RowsAreOne
<1> QED
  BY <1>1, <1>2, <1>3 DEF IInv

\* What a runner that did not succeed before does, up to its commit, leaves the
\* schema and the requests alone.
LEMMA UncommittedStep ==
    ASSUME IInv, NEW m \in Runner, phase[m] # "succeeded",
           NEW now \in Phase \ {"succeeded"}, NEW plan \in Seq(Statement),
           NEW d \in SUBSET Statement,
           phase' = [phase EXCEPT ![m] = now],
           todo' = [todo EXCEPT ![m] = plan],
           done' = [done EXCEPT ![m] = d],
           UNCHANGED <<catalog, removed, requests, rows>>,
           now \notin {"running", "dead"} => d = {},
           Drops \cap d # {} => locks = {},
           now = "running" =>
               LET whole == {plan[i] : i \in DOMAIN plan} \cup d
               IN  \/ /\ Direction[m] = "upgrade"
                      /\ whole \in {Creation, Creation \cup {Create("version table")}}
                   \/ Direction[m] = "upgrade" /\ whole = {} /\ Migrated
                   \/ Direction[m] = "downgrade" /\ whole = Removal
    PROVE  IInv'
<1>1. TypeOK'
  BY DEF IInv, TypeOK, requests
<1>2. SchemaIsWhole' /\ TasksAgreeWithServer' /\ RowsAreOne'
  BY DEF IInv, SchemaIsWhole, TasksAgreeWithServer, RowsAreOne, requests
<1>3. /\ phase'[m] = now /\ todo'[m] = plan /\ done'[m] = d
      /\ \A n \in Runner \ {m} : /\ phase'[n] = phase[n]
                                 /\ todo'[n] = todo[n] /\ done'[n] = done[n]
  BY DEF IInv, TypeOK
<1>4. Migrated => Migrated'
  BY DEF Migrated
<1>5. SuccessMeansMigrated'
  BY <1>3, <1>4 DEF IInv, SuccessMeansMigrated, Migrated
<1>6. TableIsKept' /\ IdleHasDoneNothing'
  BY <1>3 DEF IInv, TableIsKept, HasTable, IdleHasDoneNothing, requests
<1>7. PlansAreWhole'
  <2>1. ASSUME NEW n \in Runner \ {m}
        PROVE  Left(n)' = Left(n) /\ done'[n] = done[n] /\ phase'[n] = phase[n]
    <3>1. todo'[n] = todo[n]
      BY <1>3
    <3>2. \A x : x \in Left(n)' <=> x \in Left(n)
      BY <3>1 DEF Left
    <3> QED
      BY <1>3, <3>2
  <2>2. Left(m)' = {plan[i] : i \in DOMAIN plan}
    <3>1. \A x : x \in Left(m)' <=> x \in {plan[i] : i \in DOMAIN plan}
      BY <1>3 DEF Left
    <3> QED
      BY <3>1
  <2> QED
    BY <1>3, <1>4, <2>1, <2>2 DEF IInv, PlansAreWhole
<1> QED
  BY <1>1, <1>2, <1>5, <1>6, <1>7 DEF IInv

\* A run that ends without success has done nothing.
LEMMA FailedStep ==
    ASSUME IInv, NEW m \in Runner, phase[m] # "succeeded",
           EndRun(m, "failed"), UNCHANGED <<catalog, removed, requests, rows>>
    PROVE  IInv'
<1>1. <<>> \in Seq(Statement) /\ "failed" \in Phase \ {"succeeded"}
  BY EmptySeq DEF Phase
<1> QED
  BY <1>1, UncommittedStep DEF EndRun

LEMMA RunStep ==
    ASSUME IInv, NEW m \in Runner, Run(m)
    PROVE  IInv'
<1>1. phase[m] \in {"idle", "failed"}
  BY DEF Run
<1>2. CASE EndRun(m, "failed") /\ UNCHANGED <<catalog, removed, requests, rows>>
  BY <1>1, <1>2, FailedStep
<1>3. CASE ~(Direction[m] = "downgrade" /\ "revision" \notin catalog)
  <2>1. /\ phase' = [phase EXCEPT ![m] = "running"]
        /\ todo' = [todo EXCEPT ![m] = Script(m)]
        /\ done' = done
        /\ UNCHANGED <<catalog, removed, requests, rows>>
    BY <1>3 DEF Run
  <2>2. Direction[m] \in {"upgrade", "downgrade"}
    BY DirectionType
  <2>3. /\ Script(m) \in Seq(Statement)
        /\ LET whole == {Script(m)[i] : i \in DOMAIN Script(m)}
           IN  \/ /\ Direction[m] = "upgrade"
                  /\ whole \in {Creation, Creation \cup {Create("version table")}}
               \/ Direction[m] = "upgrade" /\ whole = {} /\ Migrated
               \/ Direction[m] = "downgrade" /\ whole = Removal
    <3>1. CASE Direction[m] = "upgrade" /\ "revision" \notin catalog
      <4>1. Script(m) \in {<<>> \o Upgrade, <<Create("version table")>> \o Upgrade}
        BY <3>1 DEF Script
      <4>2. <<>> \o Upgrade = Upgrade
        BY Scripts, ConcatEmptySeq
      <4> QED
        BY <3>1, <4>1, <4>2, Scripts
    <3>2. CASE Direction[m] = "downgrade"
      BY <1>3, <3>2, Scripts DEF Script
    <3>3. CASE Direction[m] = "upgrade" /\ "revision" \in catalog
      <4>1. Script(m) = <<>>
        BY <3>3 DEF Script
      <4>2. Migrated
        BY <3>3 DEF IInv, SchemaIsWhole, Migrated, Whole
      <4> QED
        BY <3>3, <4>1, <4>2, EmptySeq
    <3> QED
      BY <2>2, <3>1, <3>2, <3>3
  <2>4. done[m] = {}
    BY <1>1 DEF IInv, IdleHasDoneNothing
  <2>5. done' = [done EXCEPT ![m] = {}]
    BY <2>1, <2>4 DEF IInv, TypeOK
  <2>6. {Script(m)[i] : i \in DOMAIN Script(m)} \cup {}
          = {Script(m)[i] : i \in DOMAIN Script(m)}
    OBVIOUS
  <2>7. "running" \in Phase \ {"succeeded"} /\ {} \in SUBSET Statement
    BY DEF Phase
  <2> DEFINE plan == Script(m)
  <2>8. /\ plan \in Seq(Statement)
        /\ LET whole == {plan[i] : i \in DOMAIN plan} \cup {}
           IN  \/ /\ Direction[m] = "upgrade"
                  /\ whole \in {Creation, Creation \cup {Create("version table")}}
               \/ Direction[m] = "upgrade" /\ whole = {} /\ Migrated
               \/ Direction[m] = "downgrade" /\ whole = Removal
    BY <2>3, <2>6
  <2> HIDE DEF plan
  <2>9. todo' = [todo EXCEPT ![m] = plan]
    BY <2>1 DEF plan
  <2>10. Drops \cap {} = {}
    OBVIOUS
  <2> QED
    BY <1>1, <2>1, <2>5, <2>7, <2>8, <2>9, <2>10, UncommittedStep
<1> QED
  BY <1>2, <1>3 DEF Run

LEMMA ExecuteStep ==
    ASSUME IInv, NEW m \in Runner, Execute(m)
    PROVE  IInv'
<1>1. /\ phase[m] = "running" /\ todo[m] # <<>>
      /\ WantsTable(m) => TableIsFree(m)
      /\ done' = [done EXCEPT ![m] = @ \cup {Current(m)}]
      /\ todo' = [todo EXCEPT ![m] = Tail(@)]
      /\ UNCHANGED <<catalog, removed, phase, requests, rows>>
  BY DEF Execute, Applies
<1> DEFINE plan == Tail(todo[m])
           d == done[m] \cup {Current(m)}
<1>2. /\ Current(m) \in Statement /\ plan \in Seq(Statement)
      /\ Left(m) = {Current(m)} \cup {plan[i] : i \in DOMAIN plan}
  BY <1>1, HeadIsLeft DEF IInv
<1>3. {plan[i] : i \in DOMAIN plan} \cup d = Left(m) \cup done[m]
  BY <1>2
<1>4. d \in SUBSET Statement
  BY <1>2 DEF IInv, TypeOK
<1>5. Drops \cap d # {} => locks = {}
  BY <1>1 DEF IInv, TableIsKept, HasTable, WantsTable, TableIsFree
<1>6. /\ phase' = [phase EXCEPT ![m] = "running"]
      /\ todo' = [todo EXCEPT ![m] = plan]
      /\ done' = [done EXCEPT ![m] = d]
  BY <1>1 DEF IInv, TypeOK
<1>7. /\ "running" \in Phase \ {"succeeded"} /\ phase[m] # "succeeded"
      /\ UNCHANGED <<catalog, removed, requests, rows>>
      /\ "running" \notin {"running", "dead"} => d = {}
  BY <1>1 DEF Phase
<1>8. LET whole == {plan[i] : i \in DOMAIN plan} \cup d
      IN  \/ /\ Direction[m] = "upgrade"
             /\ whole \in {Creation, Creation \cup {Create("version table")}}
          \/ Direction[m] = "upgrade" /\ whole = {} /\ Migrated
          \/ Direction[m] = "downgrade" /\ whole = Removal
  BY <1>1, <1>3 DEF IInv, PlansAreWhole
<1> HIDE DEF plan, d
<1> QED
  BY <1>2, <1>4, <1>5, <1>6, <1>7, <1>8, UncommittedStep

LEMMA KillRunnerStep ==
    ASSUME IInv, NEW m \in Runner, KillRunner(m)
    PROVE  IInv'
<1>1. /\ phase[m] = "running"
      /\ phase' = [phase EXCEPT ![m] = "dead"]
      /\ todo' = [todo EXCEPT ![m] = <<>>]
      /\ UNCHANGED <<catalog, removed, requests, rows>>
  BY DEF KillRunner
<1> DEFINE d == done[m]
<1>2. done' = [done EXCEPT ![m] = d] /\ d \in SUBSET Statement
  BY DEF KillRunner, IInv, TypeOK
<1>3. Drops \cap d # {} => locks = {}
  BY DEF IInv, TableIsKept, HasTable
<1>4. "dead" \in Phase \ {"succeeded"} /\ <<>> \in Seq(Statement)
  BY EmptySeq DEF Phase
<1> HIDE DEF d
<1> QED
  BY <1>1, <1>2, <1>3, <1>4, UncommittedStep

\* A commit applies a whole revision, or nothing.
LEMMA PublishStep ==
    ASSUME IInv, NEW m \in Runner, NEW how \in {"succeeded", "failed"}, Publish(m, how)
    PROVE  IInv'
<1>1. /\ phase[m] = "running" /\ todo[m] = <<>>
      /\ catalog' = (catalog \cup Created(m)) \ Dropped(m)
      /\ removed' = (removed \/ "table" \in Dropped(m))
      /\ rows' = IF "table" \in Dropped(m) THEN {} ELSE rows
      /\ UNCHANGED requests
      /\ phase' = [phase EXCEPT ![m] = how]
      /\ todo' = [todo EXCEPT ![m] = <<>>]
      /\ done' = [done EXCEPT ![m] = {}]
  BY DEF Publish, EndRun
<1>2. /\ phase'[m] = how /\ done'[m] = {}
      /\ \A n \in Runner \ {m} : /\ phase'[n] = phase[n]
                                 /\ todo'[n] = todo[n] /\ done'[n] = done[n]
  BY <1>1 DEF IInv, TypeOK
<1>3. Whole \subseteq Object /\ "table" \in Whole
  BY DEF Whole, Object
<1>4. \/ /\ Whole \subseteq catalog' /\ catalog' \subseteq Object
         /\ catalog \subseteq catalog' /\ rows' = rows
      \/ catalog' = catalog /\ rows' = rows /\ Migrated
      \/ /\ catalog' \subseteq catalog /\ Whole \cap catalog' = {} /\ rows' = {}
         /\ removed' /\ HasTable(m)
  BY <1>1, <1>3, DoneIsPlan DEF IInv, TypeOK
<1>5. Migrated'
  BY <1>1, <1>4 DEF Migrated
<1>6. TypeOK'
  BY <1>1, <1>4, EmptySeq DEF IInv, TypeOK, Phase, requests
<1>7. SchemaIsWhole' /\ SuccessMeansMigrated'
  BY <1>4, <1>5 DEF IInv, SchemaIsWhole, SuccessMeansMigrated, Migrated
<1>8. PlansAreWhole'
  <2>1. ASSUME NEW n \in Runner \ {m} PROVE Left(n)' = Left(n)
    <3>1. todo'[n] = todo[n]
      BY <1>2
    <3>2. \A x : x \in Left(n)' <=> x \in Left(n)
      BY <3>1 DEF Left
    <3> QED
      BY <3>2
  <2>2. ASSUME NEW n \in Runner, phase'[n] = "running"
        PROVE  n # m /\ phase[n] = "running" /\ Left(n)' \cup done'[n] = Left(n) \cup done[n]
    BY <1>2, <2>1, <2>2
  <2> QED
    BY <1>5, <2>2 DEF IInv, PlansAreWhole
<1>9. TableIsKept' /\ IdleHasDoneNothing'
  BY <1>1, <1>2, <1>4 DEF IInv, TableIsKept, HasTable, IdleHasDoneNothing, requests
<1>10. TasksAgreeWithServer' /\ RowsAreOne'
  BY <1>1, <1>4 DEF IInv, TasksAgreeWithServer, RowsAreOne, requests
<1> QED
  BY <1>6, <1>7, <1>8, <1>9, <1>10 DEF IInv

(***************************************************************************)
(* The requests' steps.                                                    *)
(***************************************************************************)

\* A request disturbs no runner, as long as the table is kept.
LEMMA RequestFrame ==
    ASSUME IInv, UNCHANGED runners, TypeOK', TableIsKept', TasksAgreeWithServer', RowsAreOne'
    PROVE  IInv'
<1>1. /\ SchemaIsWhole' /\ IdleHasDoneNothing' /\ SuccessMeansMigrated'
      /\ Migrated' = Migrated
  BY DEF IInv, runners, SchemaIsWhole, IdleHasDoneNothing, SuccessMeansMigrated, Migrated
<1>2. PlansAreWhole'
  <2>1. \A n \in Runner : Left(n)' = Left(n)
    BY DEF Left, runners
  <2> QED
    BY <1>1, <2>1 DEF IInv, PlansAreWhole, runners
<1> QED
  BY <1>1, <1>2 DEF IInv

LEMMA LookupStep ==
    ASSUME IInv, NEW r \in Request, Lookup(r)
    PROVE  IInv'
<1>1. /\ UNCHANGED runners /\ UNCHANGED <<staged, rows>> /\ pc[r] = "lookup"
      /\ pc'[r] \in {"insert", "exit"} /\ \A q \in Request \ {r} : pc'[q] = pc[q]
      /\ pc' \in [Request -> Pc]
      /\ locks' \in {locks, locks \cup {r}}
      /\ pc'[r] = "insert" => r \in locks'
      /\ locks' # locks => "table" \in catalog
      /\ \A m \in Runner : ~HasTable(m)
  BY DEF Lookup, Goto, Admitted, IInv, TypeOK, Pc
<1>2. TypeOK'
  BY <1>1 DEF IInv, TypeOK, runners
<1>3. TableIsKept'
  BY <1>1 DEF IInv, TableIsKept, HasTable, runners
<1>4. TasksAgreeWithServer' /\ RowsAreOne'
  BY <1>1 DEF IInv, TasksAgreeWithServer, RowsAreOne
<1> QED
  BY <1>1, <1>2, <1>3, <1>4, RequestFrame

\* Whoever inserts has used the table, so it is there, and its unique index too.
LEMMA InsertStep ==
    ASSUME IInv, NEW r \in Request, Insert(r)
    PROVE  IInv'
<1>1. pc[r] = "insert" /\ UNCHANGED runners /\ UNCHANGED rows
  BY DEF Insert
<1>2. r \in locks /\ "unique index" \in catalog /\ "table" \in catalog
  BY <1>1 DEF IInv, TasksAgreeWithServer, TableIsKept, SchemaIsWhole, Whole
<1>3. /\ locks' = locks
      /\ \A q \in Request \ {r} : pc'[q] = pc[q]
      /\ pc' \in [Request -> Pc]
      /\ \/ pc'[r] = "commit" /\ staged = {} /\ rows = {} /\ staged' = {r}
         \/ pc'[r] = "exit" /\ staged' = staged
  BY <1>2 DEF Insert, Goto, IInv, TypeOK, Pc
<1>4. TypeOK' /\ TableIsKept'
  BY <1>1, <1>2, <1>3 DEF IInv, TypeOK, TableIsKept, HasTable, runners
<1>5. TasksAgreeWithServer' /\ RowsAreOne'
  BY <1>1, <1>2, <1>3 DEF IInv, TasksAgreeWithServer, RowsAreOne
<1> QED
  BY <1>1, <1>4, <1>5, RequestFrame

LEMMA CommitStep ==
    ASSUME IInv, NEW r \in Request, Commit(r)
    PROVE  IInv'
<1>1. /\ pc[r] = "commit" /\ r \in staged /\ UNCHANGED runners
      /\ rows' = rows \cup {r} /\ staged' = staged \ {r} /\ locks' = locks \ {r}
      /\ pc'[r] = "idle" /\ \A q \in Request \ {r} : pc'[q] = pc[q]
      /\ pc' \in [Request -> Pc]
  BY DEF Commit, Goto, IInv, TypeOK, TasksAgreeWithServer, Pc
<1>2. r \in locks
  BY <1>1 DEF IInv, TypeOK
<1>3. TypeOK' /\ TableIsKept'
  BY <1>1, <1>2 DEF IInv, TypeOK, TableIsKept, HasTable, runners
<1>4. TasksAgreeWithServer' /\ RowsAreOne'
  BY <1>1 DEF IInv, TasksAgreeWithServer, RowsAreOne
<1> QED
  BY <1>1, <1>3, <1>4, RequestFrame

\* The other steps of a request give up, at most, what it holds.
LEMMA OtherRequestStep ==
    ASSUME IInv, NEW r \in Request,
           Arrive(r) \/ Exit(r) \/ StatementTimesOut(r) \/ Die(r) \/ Reap(r)
    PROVE  IInv'
<1>1. /\ UNCHANGED runners /\ rows' = rows
      /\ pc' \in [Request -> Pc]
      /\ pc'[r] \notin {"insert", "commit"} /\ \A q \in Request \ {r} : pc'[q] = pc[q]
      /\ \/ locks' = locks /\ staged' = staged /\ (r \in staged => pc'[r] = "dead")
            /\ (r \in locks => pc'[r] \in {"exit", "dead"})
         \/ locks' = locks \ {r} /\ staged' = staged \ {r}
  BY DEF Arrive, Exit, StatementTimesOut, Die, Reap, Goto, IInv, TypeOK,
         TasksAgreeWithServer, Pc
<1>2. TypeOK' /\ TableIsKept'
  BY <1>1 DEF IInv, TypeOK, TableIsKept, HasTable, runners
<1>3. TasksAgreeWithServer' /\ RowsAreOne'
  BY <1>1 DEF IInv, TasksAgreeWithServer, RowsAreOne
<1> QED
  BY <1>1, <1>2, <1>3, RequestFrame

(***************************************************************************)
(* The theorems.                                                           *)
(***************************************************************************)

LEMMA StepIInv == IInv /\ [Next]_vars => IInv'
<1> SUFFICES ASSUME IInv, [Next]_vars PROVE IInv'
  OBVIOUS
<1>1. ASSUME NEW m \in Runner, Run(m) \/ Proceed(m) \/ CommitUnheard(m)
                               \/ LoseConnection(m) \/ KillRunner(m) \/ ReapRunner(m)
      PROVE  IInv'
  <2>1. CASE Refused(m) \/ LoseConnection(m) \/ ReapRunner(m)
    BY <2>1, FailedStep DEF Refused, Applies, LoseConnection, ReapRunner
  <2> QED
    BY <1>1, <2>1, RunStep, ExecuteStep, PublishStep, KillRunnerStep
       DEF Proceed, CommitRun, CommitUnheard
<1>2. ASSUME NEW r \in Request, Arrive(r) \/ Serve(r) \/ StatementTimesOut(r)
                                \/ Die(r) \/ Reap(r)
      PROVE  IInv'
  BY <1>2, LookupStep, InsertStep, CommitStep, OtherRequestStep DEF Serve
<1>3. CASE UNCHANGED vars
  <2>1. UNCHANGED runners /\ UNCHANGED <<pc, locks, staged, rows>>
    BY <1>3 DEF vars, runners
  <2>2. TypeOK' /\ TableIsKept' /\ TasksAgreeWithServer' /\ RowsAreOne'
    BY <2>1 DEF IInv, TypeOK, TableIsKept, HasTable, TasksAgreeWithServer, RowsAreOne, runners
  <2> QED
    BY <2>1, <2>2, RequestFrame
<1> QED
  BY <1>1, <1>2, <1>3 DEF Next

\* In every reachable state, a runner's revision is whole and the table is kept.
THEOREM Invariance == Spec => []IInv
<1>1. Init => IInv
  BY InitIInv
<1>2. IInv /\ [Next]_vars => IInv'
  BY StepIInv
<1> QED
  BY <1>1, <1>2, PTL DEF Spec

\* Type correctness; an uncommitted row is in a table its request has a lock on.
THEOREM TypeCorrect == Spec => []TypeOK
<1>1. IInv => TypeOK
  BY DEF IInv
<1> QED
  BY <1>1, Invariance, PTL

\* `alembic upgrade' and `alembic downgrade' never leave half a revision, wherever
\* they fail and however many run at once.
THEOREM RevisionsAreAtomic == Spec => []SchemaIsWhole
<1>1. IInv => SchemaIsWhole
  BY DEF IInv
<1> QED
  BY <1>1, Invariance, PTL

\* One key, one event, also for requests that are served during migrations.
THEOREM KeysAreUnique == Spec => []OneEventPerKey
<1>1. IInv => OneEventPerKey
  BY DEF IInv, RowsAreOne, OneEventPerKey
<1> QED
  BY <1>1, Invariance, PTL

\* An upgrade that reported success means a schema to serve from, unless some
\* downgrade reported success.
THEOREM SuccessIsMigration == Spec => []SuccessMeansMigrated
<1>1. IInv => SuccessMeansMigrated
  BY DEF IInv
<1> QED
  BY <1>1, Invariance, PTL
(***************************************************************************)
(* Runners take turns.  Each script opens with a statement that only one   *)
(* transaction can have run: it creates the version table, or the table    *)
(* where a version table is, or drops the unique index.  Of two such       *)
(* statements the catalog admits at most one, and the same one twice       *)
(* clashes.  So a runner that has done anything is alone with it.          *)
(***************************************************************************)

Opens(s) ==
    \/ s \in {Create("version table"), Drop("unique index")}
    \/ s = Create("table") /\ "version table" \in catalog

\* Downgrades leave the version table, and nothing comes before it.
VersionTableStays == Whole \cap catalog # {} => "version table" \in catalog

\* What a runner has done is not undone, or done again, under it.
DoneIsPossible == \A m \in Runner : \A s \in done[m] : Possible(s)

WorkBegins ==
    \A m \in Runner :
        /\ done[m] # {} => \E s \in done[m] : Opens(s)
        /\ phase[m] = "running" /\ todo[m] # <<>> /\ done[m] = {} => Opens(Current(m))

\* At most one runner at a time has uncommitted work.
RunnersTakeTurns == \A m, n \in Runner : done[m] # {} /\ done[n] # {} => m = n

Turns ==
    /\ VersionTableStays
    /\ DoneIsPossible
    /\ WorkBegins
    /\ RunnersTakeTurns

LEMMA OneOpens ==
    ASSUME VersionTableStays, SchemaIsWhole,
           NEW s, Opens(s), Possible(s), NEW t, Opens(t), Possible(t)
    PROVE  s.object = t.object
<1>1. {"version table", "table", "unique index"} \subseteq Object
      /\ {"table", "unique index"} \subseteq Whole
  BY DEF Object, Whole
<1>2. /\ Create("version table").op = "create" /\ Create("table").op = "create"
      /\ Create("version table").object = "version table"
      /\ Create("table").object = "table"
      /\ Drop("unique index").op = "drop" /\ Drop("unique index").object = "unique index"
  BY <1>1, Statements
<1>3. "unique index" \in catalog => {"table", "version table"} \subseteq catalog
  BY <1>1 DEF VersionTableStays, SchemaIsWhole
<1> QED
  BY <1>2, <1>3 DEF Opens, Possible

\* What a step of one runner must see to, as long as it does not commit.
LEMMA TurnsOfOne ==
    ASSUME Turns, NEW m \in Runner, UNCHANGED catalog,
           \A n \in Runner \ {m} : /\ phase'[n] = phase[n]
                                   /\ todo'[n] = todo[n] /\ done'[n] = done[n],
           \/ done'[m] = {}
           \/ \A n \in Runner \ {m} : done[n] = {},
           \A s \in done'[m] : Possible(s),
           done'[m] # {} => \E s \in done'[m] : Opens(s),
           phase'[m] = "running" /\ todo'[m] # <<>> /\ done'[m] = {}
               => Opens(Head(todo'[m]))
    PROVE  Turns'
<1>1. VersionTableStays' /\ RunnersTakeTurns'
  BY DEF Turns, VersionTableStays, RunnersTakeTurns
<1>2. DoneIsPossible'
  BY DEF Turns, DoneIsPossible, Possible
<1>3. WorkBegins'
  BY DEF Turns, WorkBegins, Current, Opens
<1> QED
  BY <1>1, <1>2, <1>3 DEF Turns

LEMMA PrefixIsHead ==
    ASSUME NEW e \in Statement, NEW s \in Seq(Statement)
    PROVE  Head(<<e>> \o s) = e
<1> DEFINE t == <<e>> \o s
<1>1. <<e>> \in Seq(Statement) /\ Len(<<e>>) = 1 /\ <<e>>[1] = e
  OBVIOUS
<1>2. /\ t \in Seq(Statement)
      /\ Len(t) = 1 + Len(s)
      /\ t[1] = e
  BY <1>1, ConcatProperties, LenProperties
<1>3. Len(s) \in Nat
  BY LenProperties
<1> HIDE DEF t
<1>4. t # <<>>
  BY <1>2, <1>3, EmptySeq
<1>5. Head(t) = t[1]
  BY <1>2, <1>4, HeadTailProperties
<1> QED
  BY <1>2, <1>5 DEF t

LEMMA RunTurns ==
    ASSUME IInv, Turns, NEW m \in Runner, Run(m)
    PROVE  Turns'
<1>1. /\ phase[m] \in {"idle", "failed"} /\ done[m] = {} /\ catalog' = catalog
      /\ \A n \in Runner \ {m} : /\ phase'[n] = phase[n]
                                 /\ todo'[n] = todo[n] /\ done'[n] = done[n]
      /\ done'[m] = {}
  BY DEF Run, EndRun, IInv, TypeOK, IdleHasDoneNothing
<1>2. phase'[m] = "running" => todo'[m] = Script(m)
  BY DEF Run, EndRun, IInv, TypeOK
<1>3. Script(m) # <<>> => Opens(Head(Script(m)))
  <2>1. CASE Direction[m] = "upgrade" /\ "revision" \notin catalog
    <3>1. CASE "version table" \in catalog
      <4>1. Script(m) = Upgrade
        BY <2>1, <3>1, Scripts, ConcatEmptySeq DEF Script
      <4>2. Head(Upgrade) = Create("table")
        BY DEF Upgrade
      <4>3. Opens(Create("table"))
        BY <3>1 DEF Opens
      <4> QED
        BY <4>1, <4>2, <4>3, Zenon
    <3>2. CASE "version table" \notin catalog
      <4>1. Script(m) = <<Create("version table")>> \o Upgrade
        BY <2>1, <3>2 DEF Script
      <4>2. Create("version table") \in Statement
        BY Statements DEF Object
      <4>3. Head(Script(m)) = Create("version table")
        BY <4>1, <4>2, Scripts, PrefixIsHead
      <4>4. Opens(Create("version table"))
        BY DEF Opens
      <4> QED
        BY <4>3, <4>4, Zenon
    <3> QED
      BY <3>1, <3>2
  <2>2. CASE Direction[m] = "downgrade" /\ "revision" \in catalog
    BY <2>2 DEF Script, Downgrade, Opens
  <2>3. CASE /\ ~(Direction[m] = "upgrade" /\ "revision" \notin catalog)
             /\ ~(Direction[m] = "downgrade" /\ "revision" \in catalog)
    BY <2>3 DEF Script
  <2> QED
    BY <2>1, <2>2, <2>3
<1> QED
  BY <1>1, <1>2, <1>3, TurnsOfOne

LEMMA ExecuteTurns ==
    ASSUME IInv, Turns, NEW m \in Runner, Execute(m)
    PROVE  Turns'
<1>1. /\ phase[m] = "running" /\ todo[m] # <<>> /\ ~Clashes(m) /\ Possible(Current(m))
      /\ catalog' = catalog
      /\ done'[m] = done[m] \cup {Current(m)}
      /\ \A n \in Runner \ {m} : /\ phase'[n] = phase[n]
                                 /\ todo'[n] = todo[n] /\ done'[n] = done[n]
  BY DEF Execute, Applies, IInv, TypeOK
<1>2. \A n \in Runner \ {m} : done[n] = {}
  <2> SUFFICES ASSUME NEW n \in Runner \ {m}, done[n] # {} PROVE FALSE
    OBVIOUS
  <2>1. done[m] = {}
    BY DEF Turns, RunnersTakeTurns
  <2>2. Opens(Current(m))
    BY <1>1, <2>1 DEF Turns, WorkBegins
  <2>3. PICK t \in done[n] : Opens(t)
    BY DEF Turns, WorkBegins
  <2>4. Possible(t)
    BY DEF Turns, DoneIsPossible
  <2>5. Current(m).object = t.object
    BY <1>1, <2>2, <2>3, <2>4, OneOpens DEF Turns, IInv
  <2> QED
    BY <1>1, <2>5 DEF Clashes, Touched
<1>3. \A s \in done'[m] : Possible(s)
  BY <1>1 DEF Turns, DoneIsPossible
<1>4. \E s \in done'[m] : Opens(s)
  BY <1>1 DEF Turns, WorkBegins
<1> QED
  BY <1>1, <1>2, <1>3, <1>4, TurnsOfOne

\* Runs that end without success, and killed ones.
LEMMA StoppedTurns ==
    ASSUME IInv, Turns, NEW m \in Runner, UNCHANGED catalog,
           EndRun(m, "failed") \/ KillRunner(m)
    PROVE  Turns'
<1>1. /\ \A n \in Runner \ {m} : /\ phase'[n] = phase[n]
                                 /\ todo'[n] = todo[n] /\ done'[n] = done[n]
      /\ phase'[m] # "running"
      /\ done'[m] \in {{}, done[m]}
  BY DEF EndRun, KillRunner, IInv, TypeOK
<1>2. done'[m] # {} => \A n \in Runner \ {m} : done[n] = {}
  BY <1>1 DEF Turns, RunnersTakeTurns
<1>3. /\ \A s \in done'[m] : Possible(s)
      /\ done'[m] # {} => \E s \in done'[m] : Opens(s)
  BY <1>1 DEF Turns, DoneIsPossible, WorkBegins
<1> QED
  BY <1>1, <1>2, <1>3, TurnsOfOne

\* Who commits was alone with what it did.
LEMMA PublishTurns ==
    ASSUME IInv, Turns, NEW m \in Runner, NEW how \in {"succeeded", "failed"}, Publish(m, how)
    PROVE  Turns'
<1>1. /\ phase[m] = "running" /\ todo[m] = <<>>
      /\ catalog' = (catalog \cup Created(m)) \ Dropped(m)
      /\ phase'[m] = how /\ done'[m] = {}
      /\ \A n \in Runner \ {m} : /\ phase'[n] = phase[n]
                                 /\ todo'[n] = todo[n] /\ done'[n] = done[n]
  BY DEF Publish, EndRun, IInv, TypeOK
<1>2. CASE done[m] = {}
  <2>1. catalog' = catalog
    BY <1>1, <1>2 DEF Created, Dropped
  <2> QED
    BY <1>1, <2>1, TurnsOfOne
<1>3. CASE done[m] # {}
  <2>1. \A n \in Runner : done'[n] = {}
    BY <1>1, <1>3 DEF Turns, RunnersTakeTurns
  <2>2. "version table" \notin Whole
    BY DEF Whole
  <2>3. Dropped(m) \in {{}, Whole}
    BY <1>1, DoneIsPlan
  <2>4. "version table" \in catalog => "version table" \in catalog'
    BY <1>1, <2>2, <2>3
  <2>5. WorkBegins'
    BY <1>1, <2>1, <2>4, <1>3 DEF Turns, WorkBegins, Current, Opens, RunnersTakeTurns
  <2>6. VersionTableStays'
    <3>1. CASE Dropped(m) = {}
      <4>1. PICK s \in done[m] : Opens(s)
        BY <1>3 DEF Turns, WorkBegins
      <4>2. /\ Create("version table").op = "create" /\ Drop("unique index").op = "drop"
            /\ Create("version table").object = "version table"
        BY Statements DEF Object
      <4>3. s.op # "drop"
        BY <3>1 DEF Dropped
      <4>4. CASE s = Create("version table")
        <5>1. "version table" \in Created(m)
          BY <4>2, <4>4, Zenon DEF Created
        <5> QED
          BY <1>1, <3>1, <5>1 DEF VersionTableStays
      <4>5. CASE "version table" \in catalog
        BY <2>4, <4>5 DEF VersionTableStays
      <4> QED
        BY <4>1, <4>2, <4>3, <4>4, <4>5 DEF Opens
    <3>2. CASE Dropped(m) = Whole
      BY <1>1, <3>2 DEF VersionTableStays
    <3> QED
      BY <2>3, <3>1, <3>2
  <2> QED
    BY <2>1, <2>5, <2>6 DEF Turns, DoneIsPossible, RunnersTakeTurns
<1> QED
  BY <1>2, <1>3

LEMMA StepTurns == IInv /\ Turns /\ [Next]_vars => Turns'
<1> SUFFICES ASSUME IInv, Turns, [Next]_vars PROVE Turns'
  OBVIOUS
<1>1. ASSUME NEW m \in Runner, Run(m) \/ Proceed(m) \/ CommitUnheard(m)
                               \/ LoseConnection(m) \/ KillRunner(m) \/ ReapRunner(m)
      PROVE  Turns'
  <2>1. CASE Refused(m) \/ LoseConnection(m) \/ KillRunner(m) \/ ReapRunner(m)
    BY <2>1, StoppedTurns DEF Refused, LoseConnection, KillRunner, ReapRunner
  <2> QED
    BY <1>1, <2>1, RunTurns, ExecuteTurns, PublishTurns DEF Proceed, CommitRun, CommitUnheard
<1>2. CASE UNCHANGED runners
  BY <1>2 DEF runners, Turns, VersionTableStays, DoneIsPossible, Possible, WorkBegins,
              Current, Opens, RunnersTakeTurns
<1>3. ASSUME NEW r \in Request, Arrive(r) \/ Serve(r) \/ StatementTimesOut(r)
                                \/ Die(r) \/ Reap(r)
      PROVE  UNCHANGED runners
  BY <1>3 DEF Arrive, Serve, Lookup, Insert, Commit, Exit, StatementTimesOut, Die, Reap
<1>4. UNCHANGED vars => UNCHANGED runners
  BY DEF vars, runners
<1> QED
  BY <1>1, <1>2, <1>3, <1>4 DEF Next

(***************************************************************************)
(* The promise of Schema, one step at a time.                              *)
(***************************************************************************)

\* Who has done anything waits for nothing: its first statement was the one to wait.
LEMMA HoldersDoNotWait ==
    ASSUME IInv, Turns, NEW m \in Runner, done[m] # {}
    PROVE  /\ \A n \in Runner : ~AwaitsRunner(m, n)
           /\ \A r \in Request : ~AwaitsUser(m, r)
<1>1. \A n \in Runner \ {m} : Touched(n) = {} /\ ~HasTable(n)
  BY DEF Turns, RunnersTakeTurns, Touched, HasTable
<1>2. ~WantsTable(m)
  <2> SUFFICES ASSUME WantsTable(m) PROVE FALSE
    OBVIOUS
  <2>1. PICK s \in done[m] : Opens(s)
    BY DEF Turns, WorkBegins
  <2>2. /\ phase[m] = "running" /\ Current(m) \in Left(m) \cap Drops
        /\ \A t \in Drops : t.op = "drop"
        /\ ~HasTable(m)
    <3>1. \A t \in Drops : t.op = "drop"
      <4>1. \A o \in Object : Drop(o).op = "drop"
        BY Statements
      <4>2. Drops = {Drop(o) : o \in {"unique index", "indexes", "table"}}
        BY DEF Drops
      <4> QED
        BY <4>1, <4>2 DEF Object
    <3>2. /\ phase[m] = "running" /\ todo[m] # <<>> /\ Current(m) \in Drops
          /\ ~HasTable(m) /\ TypeOK
      BY DEF WantsTable, IInv
    <3>3. Current(m) \in Left(m)
      BY <3>2, HeadIsLeft
    <3> QED
      BY <3>1, <3>2, <3>3
  <2>3. Left(m) \cup done[m] = Removal
    <3>1. \A o \in Whole \cup {"version table"} : Create(o).op = "create"
      BY DEF Create
    <3>2. Current(m) \notin Creation \cup {Create("version table")}
      BY <2>2, <3>1 DEF Creation
    <3> QED
      BY <2>2, <3>2 DEF IInv, PlansAreWhole
  <2>4. s.op = "drop"
    <3>1. PICK o \in Whole : s = Drop(o)
      BY <2>1, <2>3 DEF Removal
    <3> QED
      BY <3>1 DEF Drop
  <2>5. s = Drop("unique index")
    <3>1. Create("version table").op = "create" /\ Create("table").op = "create"
      BY DEF Create
    <3> QED
      BY <2>1, <2>4, <3>1 DEF Opens
  <2> QED
    BY <2>1, <2>2, <2>5 DEF HasTable, Drops
<1> QED
  BY <1>1, <1>2 DEF AwaitsRunner, AwaitsUser

\* So a runner waits for users of the table only, those for uncommitted rows, and
\* whoever has one of these for nothing.
LEMMA WaitsEnd == IInv /\ Turns => NoDeadlock
<1> SUFFICES ASSUME IInv, Turns, NEW M \in SUBSET Runner, NEW R \in SUBSET Request,
                    \A m \in M : \/ \E n \in M : AwaitsRunner(m, n)
                                 \/ \E r \in R : AwaitsUser(m, r),
                    \A r \in R : \/ \E m \in M : AwaitsMigration(r, m)
                                 \/ \E q \in R : AwaitsRow(r, q)
             PROVE  M = {} /\ R = {}
  BY DEF NoDeadlock
<1>1. ASSUME NEW q \in R, q \in staged PROVE FALSE
  <2>1. pc[q] \in {"commit", "dead"}
    BY <1>1 DEF IInv, TasksAgreeWithServer
  <2> QED
    BY <1>1, <2>1 DEF AwaitsMigration, AwaitsRow
<1>2. \A r, q \in R : ~AwaitsRow(r, q)
  BY <1>1 DEF AwaitsRow
<1>3. ASSUME NEW r \in R, r \in locks PROVE FALSE
  <2>1. pc[r] # "lookup"
    BY <1>3 DEF IInv, TasksAgreeWithServer
  <2> QED
    BY <1>2, <1>3, <2>1 DEF AwaitsMigration
<1>4. \A m \in M : done[m] = {}
  BY HoldersDoNotWait
<1>5. \A m, n \in M : ~AwaitsRunner(m, n)
  BY <1>4 DEF AwaitsRunner, Touched, HasTable
<1>6. M = {}
  BY <1>3, <1>5 DEF AwaitsUser
<1> QED
  BY <1>2, <1>6

\* A runner's commit puts the schema there, finds it there, or takes it away.
LEMMA PublishKeepsPromise ==
    ASSUME IInv, Turns, NEW m \in Runner, NEW how \in {"succeeded", "failed"}, Publish(m, how)
    PROVE  Promised!Next
<1> DEFINE installed == Whole \subseteq catalog
           reported == {n \in Runner : phase[n] = "succeeded"}
<1>1. /\ phase[m] = "running" /\ todo[m] = <<>>
      /\ catalog' = (catalog \cup Created(m)) \ Dropped(m)
      /\ removed' = (removed \/ "table" \in Dropped(m))
      /\ rows' = IF "table" \in Dropped(m) THEN {} ELSE rows
      /\ phase' = [phase EXCEPT ![m] = how]
  BY DEF Publish, EndRun
<1>2. m \notin reported /\ reported' \in {reported, reported \cup {m}}
  BY <1>1 DEF IInv, TypeOK
<1>3. "table" \in Whole /\ "table" \in Object /\ "unique index" \in Whole
  BY DEF Whole, Object
<1>4. CASE /\ Direction[m] = "upgrade"
           /\ Whole \subseteq Created(m) /\ Dropped(m) = {}
  <2>1. PICK s \in done[m] : s.op = "create" /\ s.object = "table"
    BY <1>3, <1>4 DEF Created
  <2>2. ~installed /\ installed'
    BY <1>1, <1>3, <1>4, <2>1 DEF Turns, DoneIsPossible, Possible
  <2>3. rows' = rows /\ removed' = removed
    BY <1>1, <1>4 DEF IInv, TypeOK
  <2>4. Promised!Install(m)
    BY <1>2, <1>4, <2>2, <2>3 DEF Promised!Install, Promised!Finish
  <2> QED
    BY <2>4 DEF Promised!Next
<1>5. CASE /\ Direction[m] = "upgrade"
           /\ Created(m) = {} /\ Dropped(m) = {} /\ Migrated
  <2>1. catalog' = catalog /\ rows' = rows /\ removed' = removed
    BY <1>1, <1>5 DEF IInv, TypeOK
  <2>2. installed' = installed
    BY <2>1
  <2>3. installed \/ removed
    BY <1>5 DEF Migrated
  <2>4. Promised!Confirm(m)
    BY <1>2, <1>5, <2>1, <2>2, <2>3 DEF Promised!Confirm, Promised!Finish
  <2> QED
    BY <2>4 DEF Promised!Next
<1>6. CASE /\ Direction[m] = "downgrade"
           /\ Created(m) = {} /\ Dropped(m) = Whole /\ HasTable(m)
  <2>1. "unique index" \in catalog
    <3>1. PICK s \in done[m] : s.op = "drop" /\ s.object = "unique index"
      BY <1>3, <1>6 DEF Dropped
    <3> QED
      BY <3>1 DEF Turns, DoneIsPossible, Possible
  <2>2. installed
    BY <1>3, <2>1 DEF IInv, SchemaIsWhole
  <2>3. ~installed' /\ rows' = {} /\ removed' = TRUE
    BY <1>1, <1>3, <1>6
  <2>4. Promised!Remove(m)
    BY <1>2, <1>6, <2>2, <2>3 DEF Promised!Remove, Promised!Finish
  <2> QED
    BY <2>4 DEF Promised!Next
<1> QED
  BY <1>1, <1>4, <1>5, <1>6, DoneIsPlan

\* A request's commit records its row, if it had not recorded it before.
LEMMA CommitKeepsPromise ==
    ASSUME IInv, NEW r \in Request, Commit(r)
    PROVE  [Promised!Next]_Promised!vars
<1>1. /\ r \in staged /\ r \in locks
      /\ rows' = rows \cup {r} /\ UNCHANGED <<catalog, removed, phase>>
  BY DEF Commit, runners, IInv, TypeOK, TasksAgreeWithServer
<1>2. Whole \subseteq catalog
  BY <1>1 DEF IInv, TableIsKept, SchemaIsWhole, Whole
<1>3. rows = {} \/ rows = {r}
  BY <1>1 DEF IInv, RowsAreOne
<1>4. CASE rows = {}
  <2>1. Promised!Record(r)
    BY <1>1, <1>2, <1>4 DEF Promised!Record
  <2> QED
    BY <2>1 DEF Promised!Next
<1>5. CASE rows = {r}
  BY <1>1, <1>5 DEF Promised!vars
<1> QED
  BY <1>3, <1>4, <1>5

\* No other step is seen.
LEMMA OtherStepsAreUnseen ==
    ASSUME IInv, UNCHANGED <<catalog, removed, rows>>,
           \A m \in Runner : phase'[m] = "succeeded" <=> phase[m] = "succeeded"
    PROVE  UNCHANGED Promised!vars
BY DEF Promised!vars

LEMMA StepKeepsPromise == IInv /\ Turns /\ [Next]_vars => [Promised!Next]_Promised!vars
<1> SUFFICES ASSUME IInv, Turns, [Next]_vars PROVE [Promised!Next]_Promised!vars
  OBVIOUS
<1>1. ASSUME NEW m \in Runner, Run(m) \/ Proceed(m) \/ CommitUnheard(m)
                               \/ LoseConnection(m) \/ KillRunner(m) \/ ReapRunner(m)
      PROVE  [Promised!Next]_Promised!vars
  <2>1. CASE CommitRun(m) \/ CommitUnheard(m)
    BY <2>1, PublishKeepsPromise DEF CommitRun, CommitUnheard
  <2>2. CASE ~CommitRun(m) /\ ~CommitUnheard(m)
    <3>1. /\ phase[m] # "succeeded" /\ UNCHANGED <<catalog, removed, rows>>
          /\ \E now \in Phase \ {"succeeded"} : phase' = [phase EXCEPT ![m] = now]
      <4>1. "running" \in Phase /\ "failed" \in Phase /\ "dead" \in Phase
        BY DEF Phase
      <4>2. CASE Execute(m)
        <5>1. phase[m] = "running" /\ UNCHANGED <<catalog, removed, rows, phase>>
          BY <4>2 DEF Execute, Applies
        <5>2. phase' = [phase EXCEPT ![m] = "running"]
          BY <5>1 DEF IInv, TypeOK
        <5> QED
          BY <4>1, <5>1, <5>2
      <4>3. CASE Run(m)
        BY <4>1, <4>3 DEF Run, EndRun
      <4>4. CASE Refused(m) \/ LoseConnection(m) \/ KillRunner(m) \/ ReapRunner(m)
        BY <4>1, <4>4 DEF Refused, Applies, LoseConnection, KillRunner, ReapRunner, EndRun
      <4> QED
        BY <1>1, <2>2, <4>2, <4>3, <4>4 DEF Proceed
    <3>2. \A n \in Runner : phase'[n] = "succeeded" <=> phase[n] = "succeeded"
      BY <3>1 DEF IInv, TypeOK
    <3> QED
      BY <3>1, <3>2, OtherStepsAreUnseen
  <2> QED
    BY <2>1, <2>2
<1>2. ASSUME NEW r \in Request, Arrive(r) \/ Serve(r) \/ StatementTimesOut(r)
                                \/ Die(r) \/ Reap(r)
      PROVE  [Promised!Next]_Promised!vars
  <2>1. CASE Commit(r)
    BY <2>1, CommitKeepsPromise
  <2>2. CASE ~Commit(r)
    <3>1. UNCHANGED <<catalog, removed, rows, phase>>
      BY <1>2, <2>2 DEF Arrive, Serve, Lookup, Insert, Exit, StatementTimesOut, Die, Reap,
                        runners
    <3> QED
      BY <3>1, OtherStepsAreUnseen
  <2> QED
    BY <2>1, <2>2
<1>3. CASE UNCHANGED vars
  BY <1>3, OtherStepsAreUnseen DEF vars
<1> QED
  BY <1>1, <1>2, <1>3 DEF Next

LEMMA InitKeepsPromise == Init => Turns /\ Promised!Init
<1> SUFFICES ASSUME Init PROVE Turns /\ Promised!Init
  OBVIOUS
<1>1. Turns
  BY DEF Init, Turns, VersionTableStays, DoneIsPossible, WorkBegins, RunnersTakeTurns
<1>2. "table" \in Whole
  BY DEF Whole
<1>3. (Whole \subseteq catalog) = FALSE
  BY <1>2 DEF Init
<1>4. Promised!Init
  BY <1>3 DEF Init, Promised!Init
<1> QED
  BY <1>1, <1>4

\* However many runners are started, at most one has uncommitted work at a time, and
\* what it has done is still possible.
THEOREM Turning == Spec => []Turns
<1>1. Init => Turns
  BY InitKeepsPromise
<1>2. IInv /\ Turns /\ [Next]_vars => Turns'
  BY StepTurns
<1> QED
  BY <1>1, <1>2, Invariance, PTL DEF Spec

\* The waits for locks of migrations and requests never form a circle: what alembic
\* and POST /v1/events do in the database needs no deadlock detection.
THEOREM NoCircularWait == Spec => []NoDeadlock
<1>1. IInv /\ Turns => NoDeadlock
  BY WaitsEnd
<1> QED
  BY <1>1, Invariance, Turning, PTL

\* Any number of migrations and requests, failures and kills included, look to those
\* who serve from the database like steps of Schema, one at a time.
THEOREM MigrationsKeepPromise == Spec => RefinesSchema
<1>1. Init => Promised!Init
  BY InitKeepsPromise
<1>2. IInv /\ Turns /\ [Next]_vars => [Promised!Next]_Promised!vars
  BY StepKeepsPromise
<1> QED
  BY <1>1, <1>2, Invariance, Turning, PTL DEF Spec, RefinesSchema, Promised!Spec
==============================================================================
