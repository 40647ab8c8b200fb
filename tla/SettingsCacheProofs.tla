------------------------ MODULE SettingsCacheProofs ------------------------
(***************************************************************************)
(* Proofs about SettingsCache, for any number of page renders and forms,   *)
(* any TTL, and any time an answer may be on its way.  The invariant ties  *)
(* the age of a copy to the age of the version that replaced it, and a     *)
(* stale copy of the web process to the form that has yet to drop it.      *)
(***************************************************************************)
EXTENDS SettingsCache, TLAPS

\* A version replaced by another has been so no longer than its copy is old, and
\* its answer was on its way.
AgeInv ==
  /\ \A p \in Processes :
       cache[p].full /\ cache[p].value < saved =>
         age[cache[p].value + 1] <= cache[p].at + MaxTransit
  /\ \A g \in Getters :
       getter[g].at = "answered" /\ getter[g].value < saved =>
         age[getter[g].value + 1] <= getter[g].late

SomeFormOpen == \E f \in Forms : form[f] # "blank"

\* What the web process holds, or is about to hold, of an older version without
\* an excuse is what an open form will drop.
ExcuseInv ==
  /\ cache["web"].full /\ cache["web"].value < saved /\ ~cache["web"].excused
       => SomeFormOpen
  /\ \A g \in Renders :
       getter[g].at = "answered" /\ getter[g].value < saved /\ ~getter[g].excused
         => SomeFormOpen

CacheInv == CacheTypeOK /\ AgeInv /\ ExcuseInv

Copies(v) == [full : BOOLEAN, value : 0..v, at : 0..TTL, excused : BOOLEAN]
Reads(v) == [at : {"idle", "asked", "answered"}, value : 0..v,
             late : 0..MaxTransit, excused : BOOLEAN]
FormSteps == {"blank", "patched", "rotated"}

\* What the shape of the state says of each copy, getter and version.
LEMMA Shapes ==
  ASSUME CacheTypeOK
  PROVE  /\ saved \in 0..MaxSaves
         /\ \A v \in 1..MaxSaves : age[v] \in 0..Old
         /\ \A p \in Processes : cache[p] \in Copies(saved)
         /\ \A g \in Getters : getter[g] \in Reads(saved)
  BY DEF CacheTypeOK, Versions, Copies, Reads

\* The fields of a copy and of a getter's record.
LEMMA Fields ==
  ASSUME NEW v \in Nat
  PROVE  /\ \A c \in Copies(v) : /\ c.full \in BOOLEAN /\ c.value \in 0..v
                                 /\ c.at \in 0..TTL /\ c.excused \in BOOLEAN
         /\ \A r \in Reads(v) : /\ r.value \in 0..v /\ r.late \in 0..MaxTransit
                                /\ r.excused \in BOOLEAN
                                /\ r.at \in {"idle", "asked", "answered"}
  BY DEF Copies, Reads

\* A copy with its age or its excuse replaced.
LEMMA CopyUpdated ==
  ASSUME NEW v \in Nat, NEW c \in Copies(v), NEW n \in 0..TTL, NEW b \in BOOLEAN
  PROVE  /\ [c EXCEPT !.at = n] =
              [full |-> c.full, value |-> c.value, at |-> n, excused |-> c.excused]
         /\ [c EXCEPT !.excused = b] =
              [full |-> c.full, value |-> c.value, at |-> c.at, excused |-> b]
<1>1. [c EXCEPT !.at = n] =
        [full |-> c.full, value |-> c.value, at |-> n, excused |-> c.excused]
  BY DEF Copies
<1>2. [c EXCEPT !.excused = b] =
        [full |-> c.full, value |-> c.value, at |-> c.at, excused |-> b]
  BY DEF Copies
<1> QED  BY <1>1, <1>2

\* A getter that is excused, that waits on, or that asks.
LEMMA ReadUpdated ==
  ASSUME NEW v \in Nat, NEW r \in Reads(v), NEW n \in Nat, NEW b \in BOOLEAN
  PROVE  /\ [r EXCEPT !.excused = b] =
              [at |-> r.at, value |-> r.value, late |-> r.late, excused |-> b]
         /\ [r EXCEPT !.late = n] =
              [at |-> r.at, value |-> r.value, late |-> n, excused |-> r.excused]
         /\ [r EXCEPT !.at = "asked"] =
              [at |-> "asked", value |-> r.value, late |-> r.late, excused |-> r.excused]
<1>1. [r EXCEPT !.excused = b] =
        [at |-> r.at, value |-> r.value, late |-> r.late, excused |-> b]
  BY DEF Reads
<1>2. [r EXCEPT !.late = n] =
        [at |-> r.at, value |-> r.value, late |-> n, excused |-> r.excused]
  BY DEF Reads
<1>3. [r EXCEPT !.at = "asked"] =
        [at |-> "asked", value |-> r.value, late |-> r.late, excused |-> r.excused]
  BY DEF Reads
<1> QED  BY <1>1, <1>2, <1>3

\* An empty copy and a resting getter fit any version.
LEMMA Blank ==
  ASSUME NEW v \in Nat
  PROVE  /\ Empty \in Copies(v) /\ Resting \in Reads(v)
         /\ [Resting EXCEPT !.at = "asked"] \in Reads(v)
         /\ [Resting EXCEPT !.at = "asked"].at = "asked"
         /\ Resting.at = "idle" /\ ~Empty.full
<1>1. Empty \in Copies(v)
  BY CacheAssumption DEF Empty, Copies
<1>2. Resting \in Reads(v)
  BY CacheAssumption DEF Resting, Reads
<1>3. Resting.at = "idle" /\ Resting.value = 0 /\ Resting.late = 0
      /\ Resting.excused = FALSE /\ ~Empty.full
  BY DEF Resting, Empty
<1>4. [Resting EXCEPT !.at = "asked"] =
        [at |-> "asked", value |-> 0, late |-> 0, excused |-> FALSE]
  BY <1>2, <1>3, ReadUpdated
<1>5. [at |-> "asked", value |-> 0, late |-> 0, excused |-> FALSE] \in Reads(v)
  BY CacheAssumption DEF Reads
<1> QED  BY <1>1, <1>2, <1>3, <1>4, <1>5

\* The initial states satisfy the invariant: nothing is cached or asked for.
LEMMA CacheInitInv == CacheInit => CacheInv
<1> SUFFICES ASSUME CacheInit PROVE CacheInv
  OBVIOUS
<1>1. CacheTypeOK
  <2>1. cache \in [Processes -> Copies(0)] /\ getter \in [Getters -> Reads(0)]
    BY Blank DEF CacheInit
  <2>2. age \in [1..MaxSaves -> 0..Old]
    BY CacheAssumption DEF CacheInit, Old
  <2>3. form \in [Forms -> {"blank", "patched", "rotated"}] /\ saved \in Versions
        /\ booting \in BOOLEAN /\ started \in 0..saved /\ applied \in 0..saved
        /\ restarts \in 0..MaxRestarts
    BY CacheAssumption DEF CacheInit, Versions
  <2> QED  BY <2>1, <2>2, <2>3 DEF CacheInit, CacheTypeOK, Copies, Reads
<1>2. \A p \in Processes : ~cache[p].full
  BY Blank DEF CacheInit
<1>3. \A g \in Getters : getter[g].at = "idle"
  BY Blank DEF CacheInit
<1> QED
  BY <1>1, <1>2, <1>3 DEF CacheInv, AgeInv, ExcuseInv, Processes, Getters

\* A getter's process.
LEMMA ProcessOf ==
  /\ \A g \in Getters : Process(g) \in Processes
  /\ \A g \in Getters : Process(g) = "web" <=> g \in Renders
  BY CacheAssumption DEF Getters, Process, Processes

\* Using a copy changes at most what the worker goes by.
LEMMA HitStep ==
  ASSUME CacheInv, NEW g \in Getters, hit(g)
  PROVE  CacheInv'
<1>1. booting' \in BOOLEAN /\ started' \in 0..saved /\ applied' \in 0..saved
  BY ProcessOf DEF CacheInv, CacheTypeOK, hit, Apply
<1> QED
  BY <1>1 DEF CacheInv, CacheTypeOK, AgeInv, ExcuseInv, SomeFormOpen, hit

\* A question on its way is nothing's copy yet.
LEMMA AskStep ==
  ASSUME CacheInv, NEW g \in Getters, ask(g)
  PROVE  CacheInv'
<1>1. \A h \in Getters :
        getter'[h] = getter[h] \/ (getter'[h] = [Resting EXCEPT !.at = "asked"])
  BY DEF CacheInv, CacheTypeOK, ask
<1>2. [Resting EXCEPT !.at = "asked"].at = "asked"
  BY Blank
<1>3. CacheTypeOK'
  <2>1. getter' \in [Getters -> Reads(saved)]
    <3>1. [Resting EXCEPT !.at = "asked"] \in Reads(saved)
      <4>1. saved \in Nat
        BY DEF CacheInv, CacheTypeOK, Versions
      <4> QED  BY <4>1, Blank
    <3>2. getter \in [Getters -> Reads(saved)]
      BY DEF CacheInv, CacheTypeOK, Reads
    <3> QED  BY <3>1, <3>2 DEF ask
  <2> QED  BY <2>1 DEF CacheInv, CacheTypeOK, workerVars, ask, Reads
<1>4. AgeInv' /\ ExcuseInv'
  BY <1>1, <1>2 DEF CacheInv, AgeInv, ExcuseInv, SomeFormOpen, Getters, ask
<1> QED  BY <1>3, <1>4 DEF CacheInv

\* What the database answers is the newest version.
LEMMA AnswerStep ==
  ASSUME CacheInv, NEW g \in Getters, answer(g)
  PROVE  CacheInv'
<1>1. \A h \in Getters : getter'[h] = getter[h] \/ getter'[h].value = saved
  BY DEF CacheInv, CacheTypeOK, answer
<1>2. CacheTypeOK'
  <2>1. saved \in Nat /\ saved \in 0..saved
    BY DEF CacheInv, CacheTypeOK, Versions
  <2>2. \A h \in Getters : getter'[h] \in Reads(saved)
    <3> SUFFICES ASSUME NEW h \in Getters PROVE getter'[h] \in Reads(saved)
      OBVIOUS
    <3>1. getter[h] \in Reads(saved)
      BY Shapes DEF CacheInv
    <3>2. \/ getter'[h] = getter[h]
          \/ getter'[h] = [at |-> "answered", value |-> saved, late |-> 0,
                           excused |-> getter[h].excused]
      BY DEF CacheInv, CacheTypeOK, answer
    <3>3. [at |-> "answered", value |-> saved, late |-> 0,
           excused |-> getter[h].excused] \in Reads(saved)
      BY <3>1, <2>1, Fields, CacheAssumption DEF Reads
    <3> QED  BY <3>1, <3>2, <3>3
  <2>3. getter' \in [Getters -> Reads(saved)]
    BY <2>2 DEF CacheInv, CacheTypeOK, answer
  <2> QED  BY <2>3 DEF CacheInv, CacheTypeOK, workerVars, answer, Reads
<1>3. AgeInv' /\ ExcuseInv'
  BY <1>1 DEF CacheInv, CacheTypeOK, AgeInv, ExcuseInv, SomeFormOpen, Getters,
     Versions, answer
<1> QED  BY <1>2, <1>3 DEF CacheInv

\* A copy takes over the answer's age and excuse.
LEMMA StoreStep ==
  ASSUME CacheInv, NEW g \in Getters, store(g)
  PROVE  CacheInv'
<1> DEFINE copy == [full |-> TRUE, value |-> getter[g].value, at |-> 0,
                    excused |-> getter[g].excused]
<1>1. \A p \in Processes :
        cache'[p] = IF p = Process(g) THEN copy ELSE cache[p]
  BY DEF CacheInv, CacheTypeOK, store
<1>2. \A h \in Getters : getter'[h] = getter[h] \/ getter'[h].at = "idle"
  BY DEF CacheInv, CacheTypeOK, store, Resting
<1>3. getter[g].value \in 0..saved /\ getter[g].excused \in BOOLEAN
      /\ getter[g].late \in 0..MaxTransit /\ getter[g].at = "answered"
  BY DEF CacheInv, CacheTypeOK, store
<1>4. CacheTypeOK'
  <2>1. saved \in Nat
    BY DEF CacheInv, CacheTypeOK, Versions
  <2>2. getter' \in [Getters -> Reads(saved)]
    BY <2>1, Blank DEF CacheInv, CacheTypeOK, store, Reads
  <2>3. copy \in Copies(saved)
    BY <1>3, CacheAssumption DEF Copies
  <2>4. cache' \in [Processes -> Copies(saved)]
    BY <2>3 DEF CacheInv, CacheTypeOK, store, Copies
  <2>5. booting' \in BOOLEAN /\ started' \in 0..saved /\ applied' \in 0..saved
    BY <1>3 DEF CacheInv, CacheTypeOK, store, Apply
  <2> QED
    BY <2>2, <2>4, <2>5 DEF CacheInv, CacheTypeOK, store, Copies, Reads
<1>5. AgeInv'
  <2>1. getter[g].value < saved =>
          getter[g].value + 1 \in 1..MaxSaves /\ age[getter[g].value + 1] <= MaxTransit
    BY <1>3, CacheAssumption DEF CacheInv, CacheTypeOK, AgeInv, Versions, Old
  <2>2. \A p \in Processes :
          cache'[p].full /\ cache'[p].value < saved =>
            age[cache'[p].value + 1] <= cache'[p].at + MaxTransit
    BY <1>1, <1>3, <2>1, CacheAssumption DEF CacheInv, AgeInv
  <2>3. \A h \in Getters :
          getter'[h].at = "answered" /\ getter'[h].value < saved =>
            age[getter'[h].value + 1] <= getter'[h].late
    BY <1>2 DEF CacheInv, AgeInv
  <2> QED  BY <2>2, <2>3 DEF AgeInv, store
<1>6. ExcuseInv'
  <2>1. CASE g \in Renders
    BY <2>1, <1>1, <1>2, <1>3, ProcessOf
       DEF CacheInv, ExcuseInv, SomeFormOpen, Getters, Processes, store
  <2>2. CASE g \notin Renders
    <3>1. cache'["web"] = cache["web"]
      BY <2>2, <1>1, ProcessOf DEF Processes
    <3> QED
      BY <3>1, <1>2 DEF CacheInv, ExcuseInv, SomeFormOpen, Getters, store
  <2> QED  BY <2>1, <2>2
<1> QED  BY <1>4, <1>5, <1>6 DEF CacheInv

\* A save makes every copy and answer older by no time at all, and leaves its
\* form open.
LEMMA WriteStep ==
  ASSUME CacheInv, Write, SomeFormOpen', form' \in [Forms -> FormSteps]
  PROVE  CacheInv'
<1>1. saved \in 0..MaxSaves /\ saved < MaxSaves /\ saved' = saved + 1
  BY DEF CacheInv, CacheTypeOK, Versions, Write
<1>2. \A v \in 1..MaxSaves : age'[v] = IF v = saved + 1 THEN 0 ELSE age[v]
  BY DEF CacheInv, CacheTypeOK, Write
<1>3. CacheTypeOK'
  <2>1. saved' \in Versions /\ 0..saved \subseteq 0..saved' /\ saved + 1 \in 1..MaxSaves
    BY <1>1, CacheAssumption DEF Versions
  <2>2. age' \in [1..MaxSaves -> 0..Old]
    BY <2>1, CacheAssumption DEF CacheInv, CacheTypeOK, Write, Old
  <2>3. cache' \in [Processes -> Copies(saved')]
    BY <2>1 DEF CacheInv, CacheTypeOK, Write, Copies
  <2>4. getter' \in [Getters -> Reads(saved')]
    BY <2>1 DEF CacheInv, CacheTypeOK, Write, Reads
  <2>5. /\ booting' \in BOOLEAN /\ started' \in 0..saved' /\ applied' \in 0..saved'
        /\ restarts' \in 0..MaxRestarts
    BY <2>1 DEF CacheInv, CacheTypeOK, workerVars, Write
  <2> QED  BY <2>1, <2>2, <2>3, <2>4, <2>5 DEF CacheTypeOK, Copies, Reads, FormSteps
<1>4. AgeInv'
  <2>1. \A p \in Processes : cache[p].value \in 0..saved /\ cache[p].at \in 0..TTL
    BY <1>1, Shapes, Fields DEF CacheInv
  <2>2. \A g \in Getters : getter[g].value \in 0..saved /\ getter[g].late \in 0..MaxTransit
    BY <1>1, Shapes, Fields DEF CacheInv
  <2>0. age'[saved + 1] = 0 /\ \A v \in 1..saved : age'[v] = age[v]
    BY <1>1, <1>2, CacheAssumption
  <2>3. \A p \in Processes :
          cache[p].full /\ cache[p].value < saved + 1 =>
            age'[cache[p].value + 1] <= cache[p].at + MaxTransit
    <3> SUFFICES ASSUME NEW p \in Processes, cache[p].full
                 PROVE  age'[cache[p].value + 1] <= cache[p].at + MaxTransit
      OBVIOUS
    <3>1. CASE cache[p].value = saved
      BY <3>1, <2>1, <2>0, CacheAssumption
    <3>2. CASE cache[p].value < saved
      <4>1. age[cache[p].value + 1] <= cache[p].at + MaxTransit
        BY <3>2 DEF CacheInv, AgeInv
      <4>2. cache[p].value + 1 \in 1..saved
        BY <3>2, <2>1, <1>1
      <4> QED  BY <4>1, <4>2, <2>0
    <3> QED  BY <3>1, <3>2, <2>1, <1>1
  <2>4. \A g \in Getters :
          getter[g].at = "answered" /\ getter[g].value < saved + 1 =>
            age'[getter[g].value + 1] <= getter[g].late
    <3> SUFFICES ASSUME NEW g \in Getters, getter[g].at = "answered"
                 PROVE  age'[getter[g].value + 1] <= getter[g].late
      OBVIOUS
    <3>1. CASE getter[g].value = saved
      BY <3>1, <2>2, <2>0, CacheAssumption
    <3>2. CASE getter[g].value < saved
      <4>1. age[getter[g].value + 1] <= getter[g].late
        BY <3>2 DEF CacheInv, AgeInv
      <4>2. getter[g].value + 1 \in 1..saved
        BY <3>2, <2>2, <1>1
      <4> QED  BY <4>1, <4>2, <2>0
    <3> QED  BY <3>1, <3>2, <2>2, <1>1
  <2> QED  BY <2>3, <2>4, <1>1 DEF AgeInv, Write
<1>5. ExcuseInv'
  BY DEF ExcuseInv
<1> QED  BY <1>3, <1>4, <1>5 DEF CacheInv

\* Both writes of a form leave it open.
LEMMA SaveStep ==
  ASSUME CacheInv, NEW f \in Forms, patch(f) \/ rotateProxy(f)
  PROVE  CacheInv'
<1>1. form' \in [Forms -> FormSteps] /\ form'[f] # "blank"
  BY DEF CacheInv, CacheTypeOK, patch, rotateProxy, FormSteps
<1>2. SomeFormOpen' /\ Write
  BY <1>1 DEF SomeFormOpen, patch, rotateProxy
<1> QED  BY <1>1, <1>2, WriteStep

\* What is excused or dropped needs no open form.
LEMMA ExcusedStep ==
  ASSUME CacheTypeOK, AgeInv,
         getter' = [g \in Getters |->
                      IF g \in Renders /\ getter[g].at # "idle"
                        THEN [getter[g] EXCEPT !.excused = TRUE] ELSE getter[g]],
         \/ cache' = [cache EXCEPT !["web"] = Empty]
         \/ cache' = [cache EXCEPT !["web"].excused = cache["web"].full],
         form' \in [Forms -> FormSteps],
         UNCHANGED <<saved, age, workerVars, restarts>>
  PROVE  CacheInv'
<1> DEFINE excuse(g) == [at |-> getter[g].at, value |-> getter[g].value,
                         late |-> getter[g].late, excused |-> TRUE]
           kept == [full |-> cache["web"].full, value |-> cache["web"].value,
                    at |-> cache["web"].at, excused |-> cache["web"].full]
<1>0. saved \in Nat /\ "web" \in Processes
  BY DEF CacheTypeOK, Versions, Processes
<1>a. \A g \in Getters :
        /\ getter'[g] = getter[g] \/ getter'[g] = excuse(g)
        /\ g \in Renders /\ getter[g].at # "idle" => getter'[g] = excuse(g)
  BY <1>0, Shapes, ReadUpdated
<1>b. \A p \in Processes :
        /\ p # "web" => cache'[p] = cache[p]
        /\ cache'["web"] = Empty \/ cache'["web"] = kept
  <2>1. CASE cache' = [cache EXCEPT !["web"] = Empty]
    BY <2>1, <1>0 DEF CacheTypeOK
  <2>2. CASE cache' = [cache EXCEPT !["web"].excused = cache["web"].full]
    <3>1. cache'["web"] = [cache["web"] EXCEPT !.excused = cache["web"].full]
      BY <2>2, <1>0 DEF CacheTypeOK
    <3>2. cache["web"] \in Copies(saved) /\ cache["web"].full \in BOOLEAN
      BY <1>0, Shapes, Fields
    <3> QED  BY <3>1, <3>2, <2>2, <1>0, Shapes, Fields, CopyUpdated DEF CacheTypeOK
  <2> QED  BY <2>1, <2>2
<1>1. \A g \in Getters :
        /\ getter'[g].at = getter[g].at /\ getter'[g].value = getter[g].value
        /\ getter'[g].late = getter[g].late
        /\ g \in Renders /\ getter[g].at = "answered" => getter'[g].excused
  BY <1>a
<1>2. \A p \in Processes :
        \/ ~cache'[p].full
        \/ /\ cache'[p].value = cache[p].value /\ cache'[p].at = cache[p].at
           /\ cache'[p].full = cache[p].full
  BY <1>b, <1>0, Blank
<1>3. ~cache'["web"].full \/ cache'["web"].excused
  BY <1>b, <1>0, Blank
<1>4. CacheTypeOK'
  <2>1. \A g \in Getters : getter'[g] \in Reads(saved)
    <3> SUFFICES ASSUME NEW g \in Getters PROVE getter'[g] \in Reads(saved)
      OBVIOUS
    <3>1. getter[g] \in Reads(saved)
      BY Shapes
    <3>2. excuse(g) \in Reads(saved)
      BY <3>1, <1>0, Fields DEF Reads
    <3> QED  BY <3>1, <3>2, <1>a
  <2>2. getter' \in [Getters -> Reads(saved)]
    BY <2>1
  <2>3. kept \in Copies(saved)
    BY <1>0, Shapes, Fields DEF Copies
  <2>4. \A p \in Processes : cache'[p] \in Copies(saved)
    BY <2>3, <1>b, <1>0, Shapes, Blank
  <2>5. cache' \in [Processes -> Copies(saved)]
    BY <2>4 DEF CacheTypeOK
  <2>6. /\ saved' \in Versions /\ age' \in [1..MaxSaves -> 0..Old]
        /\ booting' \in BOOLEAN /\ started' \in 0..saved' /\ applied' \in 0..saved'
        /\ restarts' \in 0..MaxRestarts /\ saved' = saved
    BY DEF CacheTypeOK, workerVars
  <2> QED  BY <2>2, <2>5, <2>6 DEF CacheTypeOK, Reads, Copies, FormSteps
<1>5. AgeInv'
  BY <1>1, <1>2 DEF AgeInv
<1>6. ExcuseInv'
  BY <1>1, <1>3 DEF ExcuseInv, Getters
<1> QED  BY <1>4, <1>5, <1>6 DEF CacheInv

\* The end of a form, however it ends.
LEMMA FormEndStep ==
  ASSUME CacheInv, NEW f \in Forms, invalidateSettingsCache(f) \/ patchFails(f)
  PROVE  CacheInv'
<1>1. form' \in [Forms -> FormSteps]
  BY DEF CacheInv, CacheTypeOK, invalidateSettingsCache, patchFails, FormSteps
<1> QED
  BY <1>1, ExcusedStep DEF CacheInv, invalidateSettingsCache, patchFails

\* A process that starts again holds nothing.
LEMMA RestartStep ==
  ASSUME CacheInv, webRestarts \/ workerRestarts
  PROVE  CacheInv'
<1>1. \A p \in Processes : cache'[p] = cache[p] \/ ~cache'[p].full
  BY DEF CacheInv, CacheTypeOK, webRestarts, workerRestarts, Empty
<1>2. \A g \in Getters : getter'[g] = getter[g] \/ getter'[g].at = "idle"
  BY DEF CacheInv, CacheTypeOK, webRestarts, workerRestarts, Resting
<1>3. restarts' \in 0..MaxRestarts
  BY CacheAssumption DEF CacheInv, CacheTypeOK, webRestarts, workerRestarts, Restart
<1>4. CacheTypeOK'
  <2>1. saved \in Nat
    BY DEF CacheInv, CacheTypeOK, Versions
  <2>0. cache \in [Processes -> Copies(saved)] /\ getter \in [Getters -> Reads(saved)]
    BY DEF CacheInv, CacheTypeOK, Copies, Reads
  <2>2. cache' \in [Processes -> Copies(saved)] /\ getter' \in [Getters -> Reads(saved)]
    BY <2>0, <2>1, Blank DEF webRestarts, workerRestarts
  <2> QED
    BY <1>3, <2>2
       DEF CacheInv, CacheTypeOK, workerVars, webRestarts, workerRestarts, Copies, Reads
<1>5. AgeInv'
  BY <1>1, <1>2 DEF CacheInv, AgeInv, webRestarts, workerRestarts
<1>6. ExcuseInv'
  <2>1. CASE webRestarts
    <3>1. ~cache'["web"].full
      BY <2>1 DEF CacheInv, CacheTypeOK, webRestarts, Empty, Processes
    <3>2. \A g \in Renders : getter'[g].at = "idle"
      BY <2>1 DEF CacheInv, CacheTypeOK, webRestarts, Resting, Getters
    <3> QED  BY <3>1, <3>2 DEF ExcuseInv
  <2>2. CASE workerRestarts
    <3>1. cache'["web"] = cache["web"]
      BY <2>2 DEF CacheInv, CacheTypeOK, workerRestarts, Processes
    <3> QED
      BY <2>2, <3>1, <1>2
         DEF CacheInv, ExcuseInv, SomeFormOpen, Getters, workerRestarts
  <2> QED  BY <2>1, <2>2
<1> QED  BY <1>4, <1>5, <1>6 DEF CacheInv

\* Copies, answers and versions age together; what is capped is old enough.
LEMMA TimeStep ==
  ASSUME CacheInv, passTime
  PROVE  CacheInv'
<1>0. saved \in Nat /\ (\A n \in 0..TTL : Older(n, TTL) \in 0..TTL)
      /\ (\A n \in 0..Old : Older(n, Old) \in 0..Old)
  BY CacheAssumption DEF CacheInv, CacheTypeOK, Versions, Older, Old
<1>a. \A p \in Processes : cache[p] \in Copies(saved)
  BY Shapes DEF CacheInv
<1>b. \A g \in Getters : getter[g] \in Reads(saved)
  BY Shapes DEF CacheInv
<1>1. \A p \in Processes :
        \/ cache'[p] = Empty
        \/ /\ cache[p].full
           /\ cache'[p] = [full |-> cache[p].full, value |-> cache[p].value,
                           at |-> Older(cache[p].at, TTL), excused |-> cache[p].excused]
  BY <1>0, <1>a, Fields, CopyUpdated DEF passTime
<1>2. \A g \in Getters :
        \/ getter[g].at # "answered" /\ getter'[g] = getter[g]
        \/ /\ getter[g].at = "answered" /\ getter[g].late < MaxTransit
           /\ getter'[g] = [at |-> getter[g].at, value |-> getter[g].value,
                            late |-> getter[g].late + 1, excused |-> getter[g].excused]
  <2> SUFFICES ASSUME NEW g \in Getters, getter[g].at = "answered"
               PROVE  /\ getter[g].late < MaxTransit
                      /\ getter'[g] = [at |-> getter[g].at, value |-> getter[g].value,
                                       late |-> getter[g].late + 1,
                                       excused |-> getter[g].excused]
    BY DEF passTime
  <2>1. getter'[g] = [getter[g] EXCEPT !.late = @ + 1] /\ getter[g].late < MaxTransit
    BY DEF passTime
  <2>2. getter[g].late + 1 \in Nat
    BY <1>0, <1>b, Fields, CacheAssumption
  <2> QED  BY <2>1, <2>2, <1>0, <1>b, ReadUpdated
<1>3. \A v \in 1..saved : age'[v] = Older(age[v], Old) /\ age[v] \in 0..Old
  <2> SUFFICES ASSUME NEW v \in 1..saved
               PROVE  age'[v] = Older(age[v], Old) /\ age[v] \in 0..Old
    OBVIOUS
  <2>1. v \in 1..MaxSaves /\ v <= saved
    BY Shapes, CacheAssumption DEF CacheInv
  <2> QED  BY <2>1, Shapes DEF CacheInv, passTime
<1>4. CacheTypeOK'
  <2>1. age' \in [1..MaxSaves -> 0..Old]
    BY <1>0, Shapes, CacheAssumption DEF CacheInv, passTime, Old
  <2>2. \A p \in Processes : cache'[p] \in Copies(saved)
    <3> SUFFICES ASSUME NEW p \in Processes, cache'[p] # Empty
                 PROVE  cache'[p] \in Copies(saved)
      BY <1>0, Blank
    <3>1. cache[p].full \in BOOLEAN /\ cache[p].value \in 0..saved
          /\ Older(cache[p].at, TTL) \in 0..TTL /\ cache[p].excused \in BOOLEAN
      BY <1>0, <1>a, Fields
    <3>2. cache'[p] = [full |-> cache[p].full, value |-> cache[p].value,
                       at |-> Older(cache[p].at, TTL), excused |-> cache[p].excused]
      BY <1>1
    <3> QED  BY <3>1, <3>2 DEF Copies
  <2>3. cache' \in [Processes -> Copies(saved)]
    BY <2>2 DEF passTime
  <2>4. \A g \in Getters : getter'[g] \in Reads(saved)
    <3> SUFFICES ASSUME NEW g \in Getters, getter[g].at = "answered"
                 PROVE  getter'[g] \in Reads(saved)
      BY <1>2, <1>b
    <3>1. getter[g].late + 1 \in 0..MaxTransit
      <4>1. getter[g].late \in 0..MaxTransit /\ getter[g].late < MaxTransit
        BY <1>0, <1>2, <1>b, Fields
      <4> QED  BY <4>1, CacheAssumption
    <3>2. getter[g].value \in 0..saved /\ getter[g].excused \in BOOLEAN
      BY <1>0, <1>b, Fields
    <3>3. getter'[g] = [at |-> "answered", value |-> getter[g].value,
                        late |-> getter[g].late + 1, excused |-> getter[g].excused]
      BY <1>2
    <3> QED  BY <3>1, <3>2, <3>3 DEF Reads
  <2>5. getter' \in [Getters -> Reads(saved)]
    BY <2>4 DEF passTime
  <2> QED  BY <2>1, <2>3, <2>5 DEF CacheInv, CacheTypeOK, workerVars, passTime, Copies, Reads
<1>5. AgeInv'
  <2>1. \A p \in Processes :
          cache[p].value \in 0..saved /\ cache[p].at \in 0..TTL
    BY <1>0, <1>a, Fields
  <2>2. \A g \in Getters : getter[g].value \in 0..saved /\ getter[g].late \in 0..MaxTransit
    BY <1>0, <1>b, Fields
  <2>3. \A p \in Processes :
          cache'[p].full /\ cache'[p].value < saved =>
            age'[cache'[p].value + 1] <= cache'[p].at + MaxTransit
    <3> SUFFICES ASSUME NEW p \in Processes, cache'[p].full, cache'[p].value < saved
                 PROVE  age'[cache'[p].value + 1] <= cache'[p].at + MaxTransit
      OBVIOUS
    <3>0. ~Empty.full
      BY <1>0, Blank
    <3>1. /\ cache[p].full /\ cache'[p].value = cache[p].value
          /\ cache'[p].at = Older(cache[p].at, TTL)
      <4>1. cache[p].full /\ cache'[p] = [full |-> cache[p].full, value |-> cache[p].value,
                at |-> Older(cache[p].at, TTL), excused |-> cache[p].excused]
        BY <3>0, <1>1
      <4> QED  BY <4>1
    <3>2. cache[p].value + 1 \in 1..saved
      BY <3>1, <2>1 DEF CacheInv, CacheTypeOK, Versions
    <3>3. age[cache[p].value + 1] <= cache[p].at + MaxTransit
      BY <3>1 DEF CacheInv, AgeInv
    <3> QED
      BY <3>1, <3>2, <3>3, <1>3, <2>1, CacheAssumption DEF Older, Old
  <2>4. \A g \in Getters :
          getter'[g].at = "answered" /\ getter'[g].value < saved =>
            age'[getter'[g].value + 1] <= getter'[g].late
    <3> SUFFICES ASSUME NEW g \in Getters, getter'[g].at = "answered",
                        getter'[g].value < saved
                 PROVE  age'[getter'[g].value + 1] <= getter'[g].late
      OBVIOUS
    <3>1. /\ getter[g].at = "answered" /\ getter'[g].value = getter[g].value
          /\ getter'[g].late = getter[g].late + 1
      <4>1. getter[g].at = "answered"
        BY <1>2
      <4>2. getter'[g] = [at |-> getter[g].at, value |-> getter[g].value,
                          late |-> getter[g].late + 1, excused |-> getter[g].excused]
        BY <4>1, <1>2
      <4> QED  BY <4>1, <4>2
    <3>2. getter[g].value + 1 \in 1..saved
      BY <3>1, <2>2 DEF CacheInv, CacheTypeOK, Versions
    <3>3. age[getter[g].value + 1] <= getter[g].late
      BY <3>1 DEF CacheInv, AgeInv
    <3> QED
      BY <3>1, <3>2, <3>3, <1>3, <2>2, CacheAssumption DEF Older, Old
  <2> QED  BY <2>3, <2>4 DEF AgeInv, passTime
<1>6. ExcuseInv'
  <2>1. cache'["web"].full =>
          /\ cache["web"].full /\ cache'["web"].value = cache["web"].value
          /\ cache'["web"].excused = cache["web"].excused
    BY <1>1, Blank DEF Processes
  <2> QED
    BY <2>1, <1>2 DEF CacheInv, ExcuseInv, SomeFormOpen, Getters, passTime
<1> QED  BY <1>4, <1>5, <1>6 DEF CacheInv

\* Every step preserves the invariant.
LEMMA CacheNextInv == CacheInv /\ [CacheNext]_cacheVars => CacheInv'
<1> SUFFICES ASSUME CacheInv, [CacheNext]_cacheVars PROVE CacheInv'
  OBVIOUS
<1>1. ASSUME NEW g \in Getters, get(g) PROVE CacheInv'
  BY <1>1, HitStep, AskStep, AnswerStep, StoreStep DEF get
<1>2. ASSUME NEW f \in Forms, patch(f) \/ rotateProxy(f) PROVE CacheInv'
  BY <1>2, SaveStep
<1>3. ASSUME NEW f \in Forms, invalidateSettingsCache(f) \/ patchFails(f)
      PROVE  CacheInv'
  BY <1>3, FormEndStep
<1>4. CASE webRestarts \/ workerRestarts
  BY <1>4, RestartStep
<1>5. CASE passTime
  BY <1>5, TimeStep
<1>6. CASE UNCHANGED cacheVars
  BY <1>6 DEF cacheVars, workerVars, CacheInv, CacheTypeOK, AgeInv, ExcuseInv, SomeFormOpen
<1> QED  BY <1>1, <1>2, <1>3, <1>4, <1>5, <1>6 DEF CacheNext

\* The copies, the getters and the forms stay in step with the row.
THEOREM CacheInvariant == CacheSpec => []CacheInv
  BY CacheInitInv, CacheNextInv, PTL DEF CacheSpec

\* The shape of the state, for every TTL and any number of processes' readers: no
\* copy is newer than the row.
THEOREM CacheTypes == CacheSpec => []CacheTypeOK
<1>1. CacheInv => CacheTypeOK
  BY DEF CacheInv
<1> QED  BY <1>1, CacheInvariant, PTL

\* No getter is served a version that was replaced a TTL and an answer's way ago.
THEOREM CacheStaleForOneTTL == CacheSpec => []StaleForOneTTL
<1>1. CacheInv => StaleForOneTTL
  <2> SUFFICES ASSUME CacheInv, NEW p \in Processes, Valid(p), cache[p].value < saved
               PROVE  age[cache[p].value + 1] < Old
    BY DEF StaleForOneTTL
  <2>1. cache[p].at \in 0..TTL /\ cache[p].value \in 0..saved /\ saved \in 0..MaxSaves
    BY DEF CacheInv, CacheTypeOK, Versions
  <2>2. cache[p].full /\ cache[p].at < TTL
    BY DEF Valid
  <2>3. age[cache[p].value + 1] <= cache[p].at + MaxTransit
    BY <2>2 DEF CacheInv, AgeInv
  <2>4. age[cache[p].value + 1] \in 0..Old
    <3>1. cache[p].value + 1 \in 1..MaxSaves
      BY <2>1, CacheAssumption
    <3> QED  BY <3>1, Shapes DEF CacheInv
  <2> QED  BY <2>1, <2>2, <2>3, <2>4, CacheAssumption DEF Old
<1> QED  BY <1>1, CacheInvariant, PTL

\* When no form is open, the web process shows what was saved last, or has an
\* excuse.
THEOREM CacheDoneFormIsShown == CacheSpec => []DoneFormIsShown
<1>1. CacheInv => DoneFormIsShown
  BY DEF CacheInv, ExcuseInv, SomeFormOpen, DoneFormIsShown
<1> QED  BY <1>1, CacheInvariant, PTL
=============================================================================
