-------------------------- MODULE LocalModel_proofs --------------------------
(***************************************************************************)
(* Proofs about LocalModel and the skills it extends: the type invariant,  *)
(* no unchecked file under its name, no half skill but by the three ways   *)
(* named, and a tier switch that every later request sees.                 *)
(***************************************************************************)
EXTENDS LocalModel, TLAPS

-----------------------------------------------------------------------------
(* The strengthening. *)

\* A panel at work has a skill and one of its files, and the claim on it while it fetches.
PanelInv ==
    /\ \A p \in Panels: phase[p] # "idle" => what[p] \in Skills
    /\ \A p \in Panels: phase[p] \in {"claim"} \cup Fetching => at[p] \in 1..NumFiles[what[p]]
    /\ \A p \in Panels: phase[p] \in Fetching => At(p) \in claimed
    /\ \A p, q \in Panels: phase[p] \in Fetching /\ phase[q] \in Fetching /\ At(p) = At(q) => p = q

\* Unless somebody is about to take the folder away, a panel at a file has the ones before.
Removing(s) == \E p \in Panels: phase[p] \in {"release", "remove"} /\ what[p] = s
HasBefore(p) == \A j \in 1..MaxFiles: j < at[p] => disk[<<what[p], j>>] # None
WholeInv ==
    \A s \in Skills \ spoiled:
        \/ Removing(s)
        \/ /\ \A p \in Panels: phase[p] \in {"claim"} \cup Fetching /\ what[p] = s => HasBefore(p)
           /\ Busy(s, Panels) \/ Whole(s)

SkillInv == SkillOK /\ PanelInv /\ PlacedChecked /\ WholeInv

\* Of a switch, what set_tier has done so far; between its two writes the old tier counts.
Pointed(v) == save[v] \in {"look", "drop"}
SwitchInv ==
    /\ (\A v \in Savers: ~Pointed(v)) => inForce = path
    /\ \A v \in Savers: save[v] \in {"point", "look"} /\ v \notin changed => wants[v] = path /\ path = inForce
    /\ \A v \in Savers: Pointed(v) => path = wants[v]

\* An old tier is loaded, or about to be, only if an unload message is on its way.
NoUnload(n) == \A i \in 1..n: queue[i] # "unload"
Current(x)  == NoUnload(Len(queue)) => x \in {path, inForce}
WorkerInv ==
    /\ worker = "generate" => loaded # None
    /\ worker \in {"read", "load"} => loaded = None
    /\ loaded # None => Current(loaded)
    /\ worker = "load" => reading # None /\ Current(reading)

\* Whoever will answer a request was in force since it was sent.
Serves(r, n) ==
    /\ answer[r] # "new" /\ path \in since[r]
    /\ NoUnload(n) /\ loaded # None => loaded \in since[r]
    /\ NoUnload(n) /\ worker = "load" => reading \in since[r]
RequestInv ==
    /\ \A i \in 1..Len(queue): queue[i] # "unload" => Serves(queue[i], i - 1)
    /\ worker # "wait" => job # None /\ Serves(job, 0)

ModelInv == ModelOK /\ SwitchInv /\ WorkerInv /\ RequestInv /\ SwitchServed

\* One save at a time, as when one user changes the settings in one place.
OneSaver == \A u, v \in Savers: u = v

-----------------------------------------------------------------------------
(* The skills. *)

LEMMA InitSkills == SkillInit => SkillInv
  <1> SUFFICES ASSUME SkillInit PROVE SkillInv
    OBVIOUS
  <1> USE FilesAssumption, NoneAssumption, ActsAssumption DEF SkillInit
  <1>1. SkillOK
    BY DEF SkillOK, Phases, Files
  <1>2. PanelInv
    BY DEF PanelInv, Fetching
  <1>3. PlacedChecked
    BY DEF PlacedChecked, Files
  <1>4. WholeInv
    BY DEF WholeInv, Fetching, Whole, Files
  <1> QED BY <1>1, <1>2, <1>3, <1>4 DEF SkillInv


LEMMA InstallKeeps ==
  ASSUME SkillInv, NEW p \in Panels, NEW s \in Skills, Install(p, s)
  PROVE  SkillInv'
  <1> USE FilesAssumption, NoneAssumption, ActsAssumption
  <1> USE DEF SkillInv, SkillOK, Install, Goes, Act, fileVars, panelVars, Fetching
  <1>1. SkillOK'
    BY DEF PanelInv, Phases, Files, At
  <1>2. PanelInv'
    BY DEF PanelInv, Phases, Files, At
  <1>3. PlacedChecked'
    BY DEF PanelInv, PlacedChecked, Files, At
  <1>4. WholeInv'
    BY DEF PanelInv, PlacedChecked, WholeInv, Removing, HasBefore, Busy, Whole, Files, At
  <1> QED BY <1>1, <1>2, <1>3, <1>4

LEMMA ClaimKeeps ==
  ASSUME SkillInv, NEW p \in Panels, Claim(p)
  PROVE  SkillInv'
  <1> USE FilesAssumption, NoneAssumption, ActsAssumption
  <1> USE DEF SkillInv, SkillOK, Claim, Goes, Taken, AfterError, fileVars, panelVars, Fetching
  <1>1. SkillOK'
    BY DEF PanelInv, Phases, Files, At
  <1>2. PanelInv'
    BY DEF PanelInv, Phases, Files, At
  <1>3. PlacedChecked'
    BY DEF PanelInv, PlacedChecked, Files, At
  <1>4. WholeInv'
    BY DEF PanelInv, PlacedChecked, WholeInv, Removing, HasBefore, Busy, Whole, Files, At
  <1> QED BY <1>1, <1>2, <1>3, <1>4

LEMMA OpensKeeps ==
  ASSUME SkillInv, NEW p \in Panels, Opens(p)
  PROVE  SkillInv'
  <1> USE FilesAssumption, NoneAssumption, ActsAssumption
  <1> USE DEF SkillInv, SkillOK, Opens, Goes, fileVars, panelVars, Fetching
  <1>1. SkillOK'
    BY DEF PanelInv, Phases, Files, At
  <1>2. PanelInv'
    BY DEF PanelInv, Phases, Files, At
  <1>3. PlacedChecked'
    BY DEF PanelInv, PlacedChecked, Files, At
  <1>4. WholeInv'
    BY DEF PanelInv, PlacedChecked, WholeInv, Removing, HasBefore, Busy, Whole, Files, At
  <1> QED BY <1>1, <1>2, <1>3, <1>4

LEMMA StreamedKeeps ==
  ASSUME SkillInv, NEW p \in Panels, Streamed(p)
  PROVE  SkillInv'
  <1> USE FilesAssumption, NoneAssumption, ActsAssumption
  <1> USE DEF SkillInv, SkillOK, Streamed, Goes, fileVars, panelVars, Fetching
  <1>1. SkillOK'
    BY DEF PanelInv, Phases, Files, At
  <1>2. PanelInv'
    BY DEF PanelInv, Phases, Files, At
  <1>3. PlacedChecked'
    BY DEF PanelInv, PlacedChecked, Files, At
  <1>4. WholeInv'
    BY DEF PanelInv, PlacedChecked, WholeInv, Removing, HasBefore, Busy, Whole, Files, At
  <1> QED BY <1>1, <1>2, <1>3, <1>4

LEMMA BreaksKeeps ==
  ASSUME SkillInv, NEW p \in Panels, Breaks(p)
  PROVE  SkillInv'
  <1> USE FilesAssumption, NoneAssumption, ActsAssumption
  <1> USE DEF SkillInv, SkillOK, Breaks, Goes, Fails, AfterError, fileVars, panelVars, Fetching
  <1>1. SkillOK'
    BY DEF PanelInv, Phases, Files, At
  <1>2. PanelInv'
    BY DEF PanelInv, Phases, Files, At
  <1>3. PlacedChecked'
    BY DEF PanelInv, PlacedChecked, Files, At
  <1>4. WholeInv'
    BY DEF PanelInv, PlacedChecked, WholeInv, Removing, HasBefore, Busy, Whole, Files, At
  <1> QED BY <1>1, <1>2, <1>3, <1>4

LEMMA RenameKeeps ==
  ASSUME SkillInv, NEW p \in Panels, Rename(p)
  PROVE  SkillInv'
  <1> USE FilesAssumption, NoneAssumption, ActsAssumption
  <1> USE DEF SkillInv, SkillOK, Fails, AfterError, Goes, fileVars, panelVars, Fetching
  <1> DEFINE f == At(p)
  <1>1. /\ what[p] \in Skills /\ at[p] \in 1..NumFiles[what[p]] /\ f \in Files /\ f = <<what[p], at[p]>>
        /\ phase[p] = "rename" /\ UNCHANGED <<what, at, acts, spoiled>> /\ wrong' \subseteq wrong
        /\ slipped' = slipped \ {f} /\ part' = [part EXCEPT ![f] = None]
    BY DEF PanelInv, Files, At, Rename
  <1>2. CASE part[f] = None
    <2>1. /\ disk' = [disk EXCEPT ![f] = None] /\ claimed' = claimed \ {f}
          /\ phase' = [phase EXCEPT ![p] = "release"]
      BY <1>2 DEF Rename
    <2> HIDE DEF f
    <2>2. SkillOK'
      BY <1>1, <2>1 DEF Phases
    <2>3. PanelInv'
      BY <1>1, <2>1 DEF PanelInv, At, f
    <2>4. PlacedChecked'
      BY <1>1, <2>1 DEF PlacedChecked, PanelInv, At, f
    <2>5. WholeInv'
      BY <1>1, <2>1 DEF PanelInv, WholeInv, Removing, HasBefore, Busy, Whole, Files
    <2> QED BY <2>2, <2>3, <2>4, <2>5
  <1>3. CASE part[f] # None
    <2>1. PICK x \in {"good", "bad"}: disk' = [disk EXCEPT ![f] = x]
      BY <1>3 DEF Rename
    <2>2. claimed' = claimed /\ phase' = [phase EXCEPT ![p] = "check"]
      BY <1>3 DEF Rename
    <2> HIDE DEF f
    <2>3. SkillOK'
      BY <1>1, <2>1, <2>2 DEF Phases
    <2>4. PanelInv'
      BY <1>1, <2>1, <2>2 DEF PanelInv, At, f
    <2>5. PlacedChecked'
      BY <1>1, <2>1, <2>2 DEF PlacedChecked, PanelInv, At, f
    <2>6. \A g \in Files: disk[g] # None => disk'[g] # None
      BY <1>1, <2>1
    <2>7. WholeInv'
      <3> SUFFICES ASSUME NEW s \in Skills \ spoiled', ~Removing(s)'
                   PROVE  /\ \A q \in Panels: (phase[q] \in {"claim"} \cup Fetching /\ what[q] = s => HasBefore(q))'
                          /\ (Busy(s, Panels) \/ Whole(s))'
        BY DEF WholeInv
      <3>1. ~Removing(s) /\ s \notin spoiled
        BY <1>1, <2>2 DEF Removing
      <3>2. ASSUME NEW q \in Panels, (phase[q] \in {"claim"} \cup Fetching /\ what[q] = s)'
            PROVE  HasBefore(q)'
        <4>1. phase[q] \in {"claim"} \cup Fetching /\ what[q] = s
          BY <1>1, <2>2, <3>2
        <4>2. HasBefore(q)
          BY <3>1, <4>1 DEF WholeInv
        <4> QED BY <1>1, <2>6, <3>1, <4>1, <4>2 DEF HasBefore, Files
      <3>3. (Busy(s, Panels) \/ Whole(s))'
        <4>1. CASE s = what[p]
          BY <1>1, <2>2, <4>1 DEF Busy
        <4>2. CASE s # what[p]
          <5>1. Busy(s, Panels) \/ Whole(s)
            BY <3>1 DEF WholeInv
          <5> QED BY <1>1, <2>1, <2>2, <4>2, <5>1 DEF Busy, Whole, Files
        <4> QED BY <4>1, <4>2
      <3> QED BY <3>2, <3>3
    <2> QED BY <2>3, <2>4, <2>5, <2>7
  <1> QED BY <1>2, <1>3

LEMMA RefusedKeeps ==
  ASSUME SkillInv, NEW p \in Panels, RenameRefused(p)
  PROVE  SkillInv'
  <1> USE FilesAssumption, NoneAssumption, ActsAssumption
  <1> USE DEF SkillInv, SkillOK, RenameRefused, Goes, Fails, AfterError, fileVars, panelVars, Fetching
  <1>1. SkillOK'
    BY DEF PanelInv, Phases, Files, At
  <1>2. PanelInv'
    BY DEF PanelInv, Phases, Files, At
  <1>3. PlacedChecked'
    BY DEF PanelInv, PlacedChecked, Files, At
  <1>4. WholeInv'
    BY DEF PanelInv, PlacedChecked, WholeInv, Removing, HasBefore, Busy, Whole, Files, At
  <1> QED BY <1>1, <1>2, <1>3, <1>4

LEMMA CheckKeeps ==
  ASSUME SkillInv, NEW p \in Panels, Check(p)
  PROVE  SkillInv'
  <1> USE FilesAssumption, NoneAssumption, ActsAssumption
  <1> USE DEF SkillInv, SkillOK, Fails, AfterError, Goes, fileVars, panelVars, Fetching
  <1> DEFINE f == At(p)
             n == NumFiles[what[p]]
  <1>1. /\ what[p] \in Skills /\ at[p] \in 1..n /\ f \in Files /\ f = <<what[p], at[p]>>
        /\ n \in 1..MaxFiles
        /\ phase[p] = "check" /\ UNCHANGED <<what, wrong, part, acts, slipped, spoiled>>
        /\ claimed' = claimed \ {f}
    BY DEF PanelInv, Files, At, Check
  <1>2. CASE disk[f] # "good"
    <2>1. /\ disk' = [disk EXCEPT ![f] = None] /\ at' = at
          /\ phase' = [phase EXCEPT ![p] = "release"]
      BY <1>2 DEF Check, Rejected
    <2> HIDE DEF f, n
    <2>2. SkillOK'
      BY <1>1, <2>1 DEF Phases
    <2>3. PanelInv'
      BY <1>1, <2>1 DEF PanelInv, At, f
    <2>4. PlacedChecked'
      BY <1>1, <2>1 DEF PlacedChecked, PanelInv, At, f
    <2>5. WholeInv'
      BY <1>1, <2>1 DEF PanelInv, WholeInv, Removing, HasBefore, Busy, Whole, Files
    <2> QED BY <2>2, <2>3, <2>4, <2>5
  <1>3. CASE disk[f] = "good"
    <2>1. /\ disk' = disk /\ at' = [at EXCEPT ![p] = @ + 1]
          /\ phase' = [phase EXCEPT ![p] = IF at[p] = n THEN "idle" ELSE "claim"]
      BY <1>3 DEF Check
    <2> HIDE DEF f, n
    <2>a. /\ at[p] \in 1..MaxFiles /\ at[p] + 1 \in 1..(MaxFiles + 1)
          /\ at[p] # n => at[p] + 1 \in 1..n
      BY <1>1
    <2>2. SkillOK'
      BY <1>1, <2>1, <2>a DEF Phases
    <2>3. PanelInv'
      BY <1>1, <2>1, <2>a DEF PanelInv, At, f, n
    <2>4. PlacedChecked'
      BY <1>1, <1>3, <2>1 DEF PlacedChecked, PanelInv, At, f
    <2>5. WholeInv'
      <3> SUFFICES ASSUME NEW s \in Skills \ spoiled', ~Removing(s)'
                   PROVE  /\ \A q \in Panels: (phase[q] \in {"claim"} \cup Fetching /\ what[q] = s => HasBefore(q))'
                          /\ (Busy(s, Panels) \/ Whole(s))'
        BY DEF WholeInv
      <3>1. ~Removing(s) /\ s \notin spoiled
        BY <1>1, <2>1 DEF Removing
      <3>2. \A q \in Panels: phase[q] \in {"claim"} \cup Fetching /\ what[q] = s => HasBefore(q)
        BY <3>1 DEF WholeInv
      <3>3. \A q \in Panels: (phase[q] \in {"claim"} \cup Fetching /\ what[q] = s => HasBefore(q))'
        BY <1>1, <1>3, <2>1, <2>a, <3>2 DEF HasBefore
      <3>4. CASE s # what[p]
        BY <1>1, <2>1, <3>1, <3>3, <3>4 DEF WholeInv, Busy, Whole
      <3>5. CASE s = what[p] /\ at[p] # n
        BY <1>1, <2>1, <3>3, <3>5 DEF Busy
      <3>6. CASE s = what[p] /\ at[p] = n
        <4>1. \A j \in 1..n: disk[<<s, j>>] # None
          BY <1>1, <1>3, <2>a, <3>2, <3>6 DEF HasBefore
        <4>2. Whole(s)'
          BY <1>1, <2>1, <3>6, <4>1 DEF Whole, n
        <4> QED BY <3>3, <4>2
      <3> QED BY <3>4, <3>5, <3>6
    <2> QED BY <2>2, <2>3, <2>4, <2>5
  <1> QED BY <1>2, <1>3

LEMMA StaysKeeps ==
  ASSUME SkillInv, NEW p \in Panels, RemovalRefused(p)
  PROVE  SkillInv'
  <1> USE FilesAssumption, NoneAssumption, ActsAssumption
  <1> USE DEF SkillInv, SkillOK, RemovalRefused, Goes, Fails, AfterError, fileVars, panelVars, Fetching
  <1>1. SkillOK'
    BY DEF PanelInv, Phases, Files, At
  <1>2. PanelInv'
    BY DEF PanelInv, Phases, Files, At
  <1>3. PlacedChecked'
    BY DEF PanelInv, PlacedChecked, Files, At
  <1>4. WholeInv'
    BY DEF PanelInv, PlacedChecked, WholeInv, Removing, HasBefore, Busy, Whole, Files, At
  <1> QED BY <1>1, <1>2, <1>3, <1>4

LEMMA RemoveKeeps ==
  ASSUME SkillInv, NEW p \in Panels, NEW s \in Skills, Remove(p, s)
  PROVE  SkillInv'
  <1> USE FilesAssumption, NoneAssumption, ActsAssumption
  <1> USE DEF SkillInv, SkillOK, Remove, Goes, Act, fileVars, panelVars, Fetching
  <1>1. SkillOK'
    BY DEF PanelInv, Phases, Files, At
  <1>2. PanelInv'
    BY DEF PanelInv, Phases, Files, At
  <1>3. PlacedChecked'
    BY DEF PanelInv, PlacedChecked, Files, At
  <1>4. WholeInv'
    BY DEF PanelInv, PlacedChecked, WholeInv, Removing, HasBefore, Busy, Whole, Files, At
  <1> QED BY <1>1, <1>2, <1>3, <1>4

LEMMA ReleaseKeeps ==
  ASSUME SkillInv, NEW p \in Panels, Release(p)
  PROVE  SkillInv'
  <1> USE FilesAssumption, NoneAssumption, ActsAssumption
  <1> USE DEF SkillInv, SkillOK, Release, Goes, fileVars, panelVars, Fetching
  <1>1. SkillOK'
    BY DEF PanelInv, Phases, Files, At
  <1>2. PanelInv'
    BY DEF PanelInv, Phases, Files, At
  <1>3. PlacedChecked'
    BY DEF PanelInv, PlacedChecked, Files, At
  <1>4. WholeInv'
    BY DEF PanelInv, PlacedChecked, WholeInv, Removing, HasBefore, Busy, Whole, Files, At
  <1> QED BY <1>1, <1>2, <1>3, <1>4

LEMMA EmptyKeeps ==
  ASSUME SkillInv, NEW p \in Panels, NEW kept, RemoveDir(p, kept)
  PROVE  SkillInv'
  <1> USE FilesAssumption, NoneAssumption, ActsAssumption
  <1> USE DEF SkillInv, SkillOK, RemoveDir, Goes, FilesOf, fileVars, panelVars, Fetching
  <1>1. SkillOK'
    BY DEF PanelInv, Phases, Files, At
  <1>2. PanelInv'
    BY DEF PanelInv, Phases, Files, At
  <1>3. PlacedChecked'
    BY DEF PanelInv, PlacedChecked, Files, At
  <1>4. WholeInv'
    BY DEF PanelInv, PlacedChecked, WholeInv, Removing, HasBefore, Busy, Whole, Files, At
  <1> QED BY <1>1, <1>2, <1>3, <1>4

LEMMA CrashKeeps ==
  ASSUME SkillInv, SkillCrash
  PROVE  SkillInv'
  <1> USE FilesAssumption, NoneAssumption, ActsAssumption
  <1> USE DEF SkillInv, SkillOK, SkillCrash, Act, fileVars, panelVars, Fetching
  <1>1. SkillOK'
    BY DEF PanelInv, Phases, Files, At
  <1>2. PanelInv'
    BY DEF PanelInv, Phases, Files, At
  <1>3. PlacedChecked'
    BY DEF PanelInv, PlacedChecked, Files, At
  <1>4. WholeInv'
    BY DEF PanelInv, PlacedChecked, WholeInv, Removing, HasBefore, Busy, Whole, Files, At
  <1> QED BY <1>1, <1>2, <1>3, <1>4

-----------------------------------------------------------------------------
(* The channel. *)

LEMMA AppendFacts ==
  ASSUME NEW S, NEW q \in Seq(S), NEW x \in S
  PROVE  /\ Append(q, x) \in Seq(S) /\ Len(Append(q, x)) = Len(q) + 1 /\ Len(q) \in Nat
         /\ \A i \in 1..Len(q): Append(q, x)[i] = q[i]
         /\ Append(q, x)[Len(q) + 1] = x
  OBVIOUS

LEMMA TailFacts ==
  ASSUME NEW S, NEW q \in Seq(S), q # <<>>
  PROVE  /\ Tail(q) \in Seq(S) /\ Len(Tail(q)) = Len(q) - 1 /\ Len(q) \in Nat \ {0}
         /\ \A i \in 1..Len(Tail(q)): Tail(q)[i] = q[i + 1]
         /\ Head(q) = q[1] /\ Head(q) \in S
  OBVIOUS

\* What is appended comes after everybody.
LEMMA Appended ==
  ASSUME ModelOK, NEW x \in Requests \cup {"unload"}, queue' = Append(queue, x)
  PROVE  /\ queue' \in Seq(Requests \cup {"unload"})
         /\ Len(queue) \in Nat /\ Len(queue') = Len(queue) + 1
         /\ \A i \in 1..Len(queue): queue'[i] = queue[i]
         /\ queue'[Len(queue) + 1] = x
         /\ \A n \in 0..Len(queue): NoUnload(n)' <=> NoUnload(n)
         /\ NoUnload(Len(queue) + 1)' => NoUnload(Len(queue)) /\ x # "unload"
  <1>1. queue \in Seq(Requests \cup {"unload"})
    BY DEF ModelOK
  <1>2. /\ queue' \in Seq(Requests \cup {"unload"})
        /\ Len(queue) \in Nat /\ Len(queue') = Len(queue) + 1
        /\ \A i \in 1..Len(queue): queue'[i] = queue[i]
        /\ queue'[Len(queue) + 1] = x
    BY <1>1, AppendFacts
  <1> QED BY <1>2 DEF NoUnload

\* Behind a request that is taken, nobody loses or gains an unload message.
LEMMA Taken1 ==
  ASSUME ModelOK, queue # <<>>, queue' = Tail(queue)
  PROVE  /\ queue' \in Seq(Requests \cup {"unload"})
         /\ Len(queue') \in Nat /\ Len(queue) = Len(queue') + 1
         /\ \A i \in 1..Len(queue'): queue'[i] = queue[i + 1]
         /\ Head(queue) = queue[1] /\ Head(queue) \in Requests \cup {"unload"}
         /\ Head(queue) # "unload" => \A n \in 0..Len(queue'): NoUnload(n)' <=> NoUnload(n + 1)
  <1>1. queue \in Seq(Requests \cup {"unload"})
    BY DEF ModelOK
  <1>2. /\ queue' \in Seq(Requests \cup {"unload"})
        /\ Len(queue') \in Nat /\ Len(queue) = Len(queue') + 1
        /\ \A i \in 1..Len(queue'): queue'[i] = queue[i + 1]
        /\ Head(queue) = queue[1] /\ Head(queue) \in Requests \cup {"unload"}
    BY <1>1, TailFacts
  <1>3. ASSUME Head(queue) # "unload", NEW n \in 0..Len(queue')
        PROVE  NoUnload(n)' <=> NoUnload(n + 1)
    <2>1. ASSUME NoUnload(n + 1) PROVE NoUnload(n)'
      BY <1>2, <2>1 DEF NoUnload
    <2>2. ASSUME NoUnload(n)', NEW i \in 1..(n + 1) PROVE queue[i] # "unload"
      <3>1. CASE i = 1
        BY <1>2, <1>3, <3>1
      <3>2. CASE i # 1
        <4>1. i - 1 \in 1..n /\ i - 1 \in 1..Len(queue') /\ (i - 1) + 1 = i
          BY <1>2, <3>2
        <4> QED BY <1>2, <2>2, <4>1 DEF NoUnload
      <3> QED BY <3>1, <3>2
    <2> QED BY <2>1, <2>2 DEF NoUnload
  <1> QED BY <1>2, <1>3

-----------------------------------------------------------------------------
(* The settings and the worker. *)

LEMMA InitModel == Init => ModelInv
  <1> SUFFICES ASSUME Init PROVE ModelInv
    OBVIOUS
  <1> USE VisionAssumption, RequestsAssumption DEF Init
  <1>0. <<>> \in Seq(Requests \cup {"unload"})
    OBVIOUS
  <1>1. ModelOK
    BY <1>0 DEF ModelOK
  <1>2. SwitchInv /\ WorkerInv
    BY DEF SwitchInv, Pointed, WorkerInv
  <1>3. RequestInv /\ SwitchServed
    BY DEF RequestInv, SwitchServed
  <1> QED BY <1>1, <1>2, <1>3 DEF ModelInv

LEMMA SaveServes ==
  ASSUME OneSaver, ModelInv, NEW v \in Savers, NEW t \in Skills, Save(v, t)
  PROVE  ModelInv'
  <1> USE VisionAssumption, RequestsAssumption, NoneAssumption
  <1> USE DEF ModelInv, ModelOK, Save, SaveGoes, saverVars, workerVars, requestVars
  <1>1. ModelOK'
    OBVIOUS
  <1>2. SwitchInv'
    BY DEF SwitchInv, Pointed, OneSaver
  <1>3. WorkerInv'
    BY DEF WorkerInv, SwitchInv, Pointed, OneSaver, Current, NoUnload
  <1>4. RequestInv'
    BY DEF WorkerInv, RequestInv, Serves, Current, NoUnload
  <1>5. SwitchServed'
    BY DEF SwitchServed, RequestInv, WorkerInv, Serves, NoUnload
  <1> QED BY <1>1, <1>2, <1>3, <1>4, <1>5

LEMMA StoreServes ==
  ASSUME OneSaver, ModelInv, NEW v \in Savers, Store(v), UNCHANGED workerVars
  PROVE  ModelInv'
  <1> USE VisionAssumption, RequestsAssumption, NoneAssumption
  <1> USE DEF ModelInv, ModelOK, Store, SaveGoes, saverVars, workerVars, requestVars
  <1>1. ModelOK'
    OBVIOUS
  <1>2. SwitchInv'
    BY DEF SwitchInv, Pointed, OneSaver
  <1>3. WorkerInv'
    BY DEF WorkerInv, SwitchInv, Pointed, OneSaver, Current, NoUnload
  <1>4. RequestInv'
    BY DEF WorkerInv, RequestInv, Serves, Current, NoUnload
  <1>5. SwitchServed'
    BY DEF SwitchServed, RequestInv, WorkerInv, Serves, NoUnload
  <1> QED BY <1>1, <1>2, <1>3, <1>4, <1>5

LEMMA SetServes ==
  ASSUME OneSaver, ModelInv, NEW v \in Savers, SetSettings(v), UNCHANGED workerVars
  PROVE  ModelInv'
  <1> USE VisionAssumption, RequestsAssumption, NoneAssumption
  <1> USE DEF ModelInv, ModelOK, SetSettings, SaveGoes, saverVars, workerVars, requestVars
  <1>1. ModelOK'
    OBVIOUS
  <1>2. SwitchInv'
    BY DEF SwitchInv, Pointed, OneSaver
  <1>3. WorkerInv'
    BY DEF WorkerInv, SwitchInv, Pointed, OneSaver, Current, NoUnload
  <1>4. RequestInv'
    BY DEF WorkerInv, RequestInv, Serves, Current, NoUnload
  <1>5. SwitchServed'
    BY DEF SwitchServed, RequestInv, WorkerInv, Serves, NoUnload
  <1> QED BY <1>1, <1>2, <1>3, <1>4, <1>5

LEMMA CompareServes ==
  ASSUME OneSaver, ModelInv, NEW v \in Savers, Compare(v), UNCHANGED workerVars
  PROVE  ModelInv'
  <1> USE VisionAssumption, RequestsAssumption, NoneAssumption
  <1> USE DEF ModelInv, ModelOK, Compare, Differs, SaveGoes, saverVars, workerVars, requestVars
  <1>1. ModelOK'
    OBVIOUS
  <1>2. SwitchInv'
    BY DEF SwitchInv, Pointed, OneSaver
  <1>3. WorkerInv'
    BY DEF WorkerInv, SwitchInv, Pointed, OneSaver, Current, NoUnload
  <1>4. RequestInv'
    BY DEF WorkerInv, RequestInv, Serves, Current, NoUnload
  <1>5. SwitchServed'
    BY DEF SwitchServed, RequestInv, WorkerInv, Serves, NoUnload
  <1> QED BY <1>1, <1>2, <1>3, <1>4, <1>5

LEMMA PointServes ==
  ASSUME OneSaver, ModelInv, NEW v \in Savers, Point(v), UNCHANGED workerVars
  PROVE  ModelInv'
  <1> USE VisionAssumption, RequestsAssumption, NoneAssumption
  <1> USE DEF ModelInv, ModelOK, Point, SaveGoes, saverVars, workerVars, requestVars
  <1>1. ModelOK'
    OBVIOUS
  <1>2. SwitchInv'
    BY DEF SwitchInv, Pointed, OneSaver
  <1>3. WorkerInv'
    BY DEF WorkerInv, SwitchInv, Pointed, OneSaver, Current, NoUnload
  <1>4. RequestInv'
    BY DEF WorkerInv, RequestInv, Serves, Current, NoUnload
  <1>5. SwitchServed'
    BY DEF SwitchServed, RequestInv, WorkerInv, Serves, NoUnload
  <1> QED BY <1>1, <1>2, <1>3, <1>4, <1>5

LEMMA LookServes ==
  ASSUME OneSaver, ModelInv, NEW v \in Savers, Look(v), UNCHANGED workerVars
  PROVE  ModelInv'
  <1> USE VisionAssumption, RequestsAssumption, NoneAssumption
  <1> USE DEF ModelInv, ModelOK, Look, SaveGoes, Ready, saverVars, workerVars, requestVars
  <1>1. ModelOK'
    OBVIOUS
  <1>2. SwitchInv'
    BY DEF SwitchInv, Pointed, OneSaver
  <1>3. WorkerInv'
    BY DEF WorkerInv, SwitchInv, Pointed, OneSaver, Current, NoUnload
  <1>4. RequestInv'
    BY DEF WorkerInv, RequestInv, Serves, Current, NoUnload
  <1>5. SwitchServed'
    BY DEF SwitchServed, RequestInv, WorkerInv, Serves, NoUnload
  <1> QED BY <1>1, <1>2, <1>3, <1>4, <1>5

LEMMA DropServes ==
  ASSUME OneSaver, ModelInv, NEW v \in Savers, Drop(v), UNCHANGED workerVars
  PROVE  ModelInv'
  <1> USE VisionAssumption, RequestsAssumption, NoneAssumption
  <1> USE DEF ModelInv, ModelOK, Drop, SaveGoes, saverVars, workerVars, requestVars
  <1>0. /\ queue' \in Seq(Requests \cup {"unload"})
        /\ Len(queue) \in Nat /\ Len(queue') = Len(queue) + 1
        /\ \A i \in 1..Len(queue): queue'[i] = queue[i]
        /\ queue'[Len(queue) + 1] = "unload"
        /\ \A n \in 0..Len(queue): NoUnload(n)' <=> NoUnload(n)
        /\ ~NoUnload(Len(queue))'
    BY Appended DEF NoUnload
  <1>1. ModelOK'
    BY <1>0
  <1>2. SwitchInv'
    BY DEF SwitchInv, Pointed, OneSaver
  <1>3. WorkerInv'
    BY <1>0 DEF WorkerInv, SwitchInv, Pointed, OneSaver, Current
  <1>4. RequestInv'
    BY <1>0 DEF WorkerInv, RequestInv, Serves, Current
  <1>5. SwitchServed'
    BY DEF SwitchServed, RequestInv, WorkerInv, Serves, NoUnload
  <1> QED BY <1>1, <1>2, <1>3, <1>4, <1>5

LEMMA AskServes ==
  ASSUME OneSaver, ModelInv, NEW r \in Requests, Ask(r)
  PROVE  ModelInv'
  <1> USE VisionAssumption, RequestsAssumption, NoneAssumption
  <1> USE DEF ModelInv, ModelOK, Ask, saverVars, workerVars, requestVars
  <1>0. /\ queue' \in Seq(Requests \cup {"unload"})
        /\ Len(queue) \in Nat /\ Len(queue') = Len(queue) + 1
        /\ \A i \in 1..Len(queue): queue'[i] = queue[i]
        /\ queue'[Len(queue) + 1] = r
        /\ \A n \in 0..Len(queue): NoUnload(n)' <=> NoUnload(n)
        /\ NoUnload(Len(queue))' => NoUnload(Len(queue))
    BY Appended DEF NoUnload
  <1>1. ModelOK'
    BY <1>0
  <1>2. SwitchInv'
    BY DEF SwitchInv, Pointed, OneSaver
  <1>3. WorkerInv'
    BY <1>0 DEF WorkerInv, SwitchInv, Pointed, OneSaver, Current
  <1>4. RequestInv'
    BY <1>0 DEF WorkerInv, RequestInv, Serves, Current
  <1>5. SwitchServed'
    BY DEF SwitchServed, RequestInv, WorkerInv, Serves, NoUnload
  <1> QED BY <1>1, <1>2, <1>3, <1>4, <1>5

LEMMA TakeUnloadServes ==
  ASSUME OneSaver, ModelInv, TakeUnload
  PROVE  ModelInv'
  <1> USE VisionAssumption, RequestsAssumption, NoneAssumption
  <1> USE DEF ModelInv, ModelOK, TakeUnload, saverVars, workerVars, requestVars
  <1>0. /\ queue' \in Seq(Requests \cup {"unload"})
        /\ Len(queue') \in Nat /\ Len(queue) = Len(queue') + 1
        /\ \A i \in 1..Len(queue'): queue'[i] = queue[i + 1]
        /\ Head(queue) = queue[1] /\ Head(queue) \in Requests \cup {"unload"}
        /\ Head(queue) # "unload" => \A n \in 0..Len(queue'): NoUnload(n)' <=> NoUnload(n + 1)
    BY Taken1
  <1>1. ModelOK'
    BY <1>0
  <1>2. SwitchInv'
    BY DEF SwitchInv, Pointed, OneSaver
  <1>3. WorkerInv'
    BY <1>0 DEF WorkerInv, SwitchInv, Pointed, OneSaver, Current
  <1>4. RequestInv'
    BY <1>0 DEF WorkerInv, RequestInv, Serves, Current
  <1>5. SwitchServed'
    BY DEF SwitchServed, RequestInv, WorkerInv, Serves, NoUnload
  <1> QED BY <1>1, <1>2, <1>3, <1>4, <1>5

LEMMA TakeRequestServes ==
  ASSUME OneSaver, ModelInv, TakeRequest
  PROVE  ModelInv'
  <1> USE VisionAssumption, RequestsAssumption, NoneAssumption
  <1> USE DEF ModelInv, ModelOK, TakeRequest, saverVars, workerVars, requestVars
  <1>0. /\ queue' \in Seq(Requests \cup {"unload"})
        /\ Len(queue') \in Nat /\ Len(queue) = Len(queue') + 1
        /\ \A i \in 1..Len(queue'): queue'[i] = queue[i + 1]
        /\ Head(queue) = queue[1] /\ Head(queue) \in Requests \cup {"unload"}
        /\ Head(queue) # "unload" => \A n \in 0..Len(queue'): NoUnload(n)' <=> NoUnload(n + 1)
    BY Taken1
  <1>1. ModelOK'
    BY <1>0
  <1>2. SwitchInv'
    BY DEF SwitchInv, Pointed, OneSaver
  <1>3. WorkerInv'
    BY <1>0 DEF WorkerInv, SwitchInv, Pointed, OneSaver, Current
  <1>4. RequestInv'
    <2>1. ASSUME NEW i \in 1..Len(queue'), queue'[i] # "unload"
          PROVE  Serves(queue[i], i - 1)'
      <3>1. i + 1 \in 1..Len(queue) /\ queue'[i] = queue[i + 1] /\ (i + 1) - 1 = i
        BY <1>0
      <3>2. Serves(queue[i + 1], i)
        BY <2>1, <3>1 DEF RequestInv
      <3>3. NoUnload(i - 1)' => NoUnload(i)
        <4>1. i - 1 \in 0..Len(queue') /\ (i - 1) + 1 = i
          BY <1>0
        <4> QED BY <1>0, <4>1
      <3> QED BY <3>1, <3>2, <3>3 DEF Serves, WorkerInv
    <2>2. job' # None /\ Serves(job, 0)'
      <3>1. job' = queue[1] /\ 1 \in 1..Len(queue) /\ queue[1] # "unload" /\ 1 - 1 = 0
        BY <1>0
      <3>2. Serves(queue[1], 0) /\ queue[1] \in Requests
        BY <1>0, <3>1 DEF RequestInv
      <3> QED BY <3>1, <3>2 DEF Serves, NoUnload, WorkerInv
    <2> QED BY <2>1, <2>2 DEF RequestInv
  <1>5. SwitchServed'
    BY DEF SwitchServed, RequestInv, WorkerInv, Serves, NoUnload
  <1> QED BY <1>1, <1>2, <1>3, <1>4, <1>5

LEMMA ReadPathServes ==
  ASSUME OneSaver, ModelInv, ReadPath
  PROVE  ModelInv'
  <1> USE VisionAssumption, RequestsAssumption, NoneAssumption
  <1> USE DEF ModelInv, ModelOK, ReadPath, saverVars, workerVars, requestVars
  <1>1. ModelOK'
    OBVIOUS
  <1>2. SwitchInv'
    BY DEF SwitchInv, Pointed, OneSaver
  <1>3. WorkerInv'
    BY DEF WorkerInv, SwitchInv, Pointed, OneSaver, Current, NoUnload
  <1>4. RequestInv'
    BY DEF WorkerInv, RequestInv, Serves, Current, NoUnload
  <1>5. SwitchServed'
    BY DEF SwitchServed, RequestInv, WorkerInv, Serves, NoUnload
  <1> QED BY <1>1, <1>2, <1>3, <1>4, <1>5

LEMMA LoadServes ==
  ASSUME OneSaver, ModelInv, Load
  PROVE  ModelInv'
  <1> USE VisionAssumption, RequestsAssumption, NoneAssumption
  <1> USE DEF ModelInv, ModelOK, Load, saverVars, workerVars, requestVars
  <1>1. ModelOK'
    OBVIOUS
  <1>2. SwitchInv'
    BY DEF SwitchInv, Pointed, OneSaver
  <1>3. WorkerInv'
    BY DEF WorkerInv, SwitchInv, Pointed, OneSaver, Current, NoUnload
  <1>4. RequestInv'
    BY DEF WorkerInv, RequestInv, Serves, Current, NoUnload
  <1>5. SwitchServed'
    BY DEF SwitchServed, RequestInv, WorkerInv, Serves, NoUnload
  <1> QED BY <1>1, <1>2, <1>3, <1>4, <1>5

LEMMA LoadFailsServes ==
  ASSUME OneSaver, ModelInv, LoadFails
  PROVE  ModelInv'
  <1> USE VisionAssumption, RequestsAssumption, NoneAssumption
  <1> USE DEF ModelInv, ModelOK, LoadFails, Replies, saverVars, workerVars, requestVars
  <1>1. ModelOK'
    OBVIOUS
  <1>2. SwitchInv'
    BY DEF SwitchInv, Pointed, OneSaver
  <1>3. WorkerInv'
    BY DEF WorkerInv, SwitchInv, Pointed, OneSaver, Current, NoUnload
  <1>4. RequestInv'
    BY DEF WorkerInv, RequestInv, Serves, Current, NoUnload
  <1>5. SwitchServed'
    BY DEF SwitchServed, RequestInv, WorkerInv, Serves, NoUnload
  <1> QED BY <1>1, <1>2, <1>3, <1>4, <1>5

LEMMA GenerateServes ==
  ASSUME OneSaver, ModelInv, Generate
  PROVE  ModelInv'
  <1> USE VisionAssumption, RequestsAssumption, NoneAssumption
  <1> USE DEF ModelInv, ModelOK, Generate, Replies, saverVars, workerVars, requestVars
  <1>1. ModelOK'
    BY DEF WorkerInv
  <1>2. SwitchInv'
    BY DEF SwitchInv, Pointed, OneSaver
  <1>3. WorkerInv'
    BY DEF WorkerInv, SwitchInv, Pointed, OneSaver, Current, NoUnload
  <1>4. RequestInv'
    BY DEF WorkerInv, RequestInv, Serves, Current, NoUnload
  <1>5. SwitchServed'
    BY DEF SwitchServed, RequestInv, WorkerInv, Serves, NoUnload
  <1> QED BY <1>1, <1>2, <1>3, <1>4, <1>5

LEMMA IdleServes ==
  ASSUME OneSaver, ModelInv, IdleUnload
  PROVE  ModelInv'
  <1> USE VisionAssumption, RequestsAssumption, NoneAssumption
  <1> USE DEF ModelInv, ModelOK, IdleUnload, saverVars, workerVars, requestVars
  <1>1. ModelOK'
    OBVIOUS
  <1>2. SwitchInv'
    BY DEF SwitchInv, Pointed, OneSaver
  <1>3. WorkerInv'
    BY DEF WorkerInv, SwitchInv, Pointed, OneSaver, Current, NoUnload
  <1>4. RequestInv'
    BY DEF WorkerInv, RequestInv, Serves, Current, NoUnload
  <1>5. SwitchServed'
    BY DEF SwitchServed, RequestInv, WorkerInv, Serves, NoUnload
  <1> QED BY <1>1, <1>2, <1>3, <1>4, <1>5

LEMMA ReleaseServes ==
  ASSUME OneSaver, ModelInv, NEW p \in Panels, Lets(p)
  PROVE  ModelInv'
  <1> USE VisionAssumption, RequestsAssumption, NoneAssumption
  <1> USE DEF ModelInv, ModelOK, Lets, saverVars, workerVars, requestVars
  <1>0. /\ queue' \in Seq(Requests \cup {"unload"})
        /\ Len(queue) \in Nat /\ Len(queue') = Len(queue) + 1
        /\ \A i \in 1..Len(queue): queue'[i] = queue[i]
        /\ queue'[Len(queue) + 1] = "unload"
        /\ \A n \in 0..Len(queue): NoUnload(n)' <=> NoUnload(n)
        /\ ~NoUnload(Len(queue))'
    BY Appended DEF NoUnload
  <1>1. ModelOK'
    BY <1>0
  <1>2. SwitchInv'
    BY DEF SwitchInv, Pointed, OneSaver
  <1>3. WorkerInv'
    BY <1>0 DEF WorkerInv, SwitchInv, Pointed, OneSaver, Current
  <1>4. RequestInv'
    BY <1>0 DEF WorkerInv, RequestInv, Serves, Current
  <1>5. SwitchServed'
    BY DEF SwitchServed, RequestInv, WorkerInv, Serves, NoUnload
  <1> QED BY <1>1, <1>2, <1>3, <1>4, <1>5

LEMMA RebootServes ==
  ASSUME OneSaver, ModelInv, Crash
  PROVE  ModelInv'
  <1> USE VisionAssumption, RequestsAssumption, NoneAssumption
  <1> USE DEF ModelInv, ModelOK, Crash, Ready
  <1>0. <<>> \in Seq(Requests \cup {"unload"}) /\ Len(<<>>) = 0
    OBVIOUS
  <1>1. ModelOK'
    BY <1>0
  <1>2. SwitchInv' /\ WorkerInv'
    BY DEF SwitchInv, Pointed, WorkerInv
  <1>3. RequestInv'
    BY <1>0 DEF RequestInv
  <1>4. SwitchServed'
    BY DEF SwitchServed
  <1> QED BY <1>1, <1>2, <1>3, <1>4

LEMMA StillServes ==
  ASSUME ModelInv, UNCHANGED modelVars
  PROVE  ModelInv'
  BY DEF ModelInv, ModelOK, SwitchInv, Pointed, WorkerInv, Current, NoUnload, RequestInv, Serves,
         SwitchServed, modelVars, saverVars, workerVars, requestVars

-----------------------------------------------------------------------------
(* All of it together. *)

LEMMA StillSkills == ASSUME SkillInv, UNCHANGED skillVars PROVE SkillInv'
  BY DEF SkillInv, SkillOK, PanelInv, Removing, HasBefore, WholeInv, PlacedChecked, Busy, Whole, At,
         skillVars, panelVars, fileVars

\* A save only counts.
LEMMA SaveSkills == ASSUME SkillInv, NEW v \in Savers, NEW t \in Skills, Save(v, t) PROVE SkillInv'
  BY ActsAssumption
  DEF SkillInv, SkillOK, PanelInv, Removing, HasBefore, WholeInv, PlacedChecked, Busy, Whole, At,
      Save, Act, panelVars, fileVars

LEMMA NextSkills == ASSUME SkillInv, [Next]_vars PROVE SkillInv'
  <1>1. CASE Skill
    <2> PICK p \in Panels: \/ Asked(p) \/ Fetches(p) \/ Empties(p)
                          \/ RenameRefused(p) \/ RemovalRefused(p) \/ Lets(p)
      BY <1>1 DEF Skill
    <2>1. CASE Asked(p)
      BY <2>1, InstallKeeps, RemoveKeeps DEF Asked
    <2>2. CASE Fetches(p)
      BY <2>2, ClaimKeeps, OpensKeeps, StreamedKeeps, BreaksKeeps, RenameKeeps, CheckKeeps DEF Fetches
    <2>3. CASE Empties(p)
      BY <2>3, EmptyKeeps DEF Empties
    <2>4. CASE RenameRefused(p)
      BY <2>4, RefusedKeeps
    <2>5. CASE Lets(p)
      BY <2>5, ReleaseKeeps DEF Lets
    <2>6. CASE RemovalRefused(p)
      BY <2>6, StaysKeeps
    <2> QED BY <2>1, <2>2, <2>3, <2>4, <2>5, <2>6
  <1>2. CASE Crash
    BY <1>2, CrashKeeps DEF Crash
  <1>3. ASSUME NEW v \in Savers, NEW t \in Skills, Save(v, t) PROVE SkillInv'
    BY <1>3, SaveSkills
  <1>4. CASE UNCHANGED skillVars
    BY <1>4, StillSkills
  <1> QED BY <1>1, <1>2, <1>3, <1>4 DEF Next, vars, Works, Saves

\* The types of the model's part, whoever saves at once.
BaseInv ==
    /\ ModelOK
    /\ worker = "generate" => loaded # None
    /\ worker = "load" => reading # None

LEMMA NextBase == ASSUME BaseInv, [Next]_vars PROVE BaseInv'
  <1> USE VisionAssumption, RequestsAssumption, NoneAssumption
  <1>0. ModelOK /\ queue \in Seq(Requests \cup {"unload"}) /\ <<>> \in Seq(Requests \cup {"unload"})
    BY DEF BaseInv, ModelOK
  <1>1. CASE UNCHANGED modelVars
    BY <1>1 DEF BaseInv, ModelOK, modelVars, saverVars, workerVars, requestVars
  <1>2. ASSUME NEW p \in Panels, Lets(p) PROVE BaseInv'
    BY <1>0, <1>2, AppendFacts DEF BaseInv, ModelOK, Lets, saverVars, workerVars, requestVars
  <1>3. ASSUME NEW v \in Savers, NEW t \in Skills, Save(v, t) PROVE BaseInv'
    BY <1>3 DEF BaseInv, ModelOK, Save, SaveGoes, workerVars, requestVars
  <1>4. ASSUME NEW v \in Savers, Saves(v) PROVE BaseInv'
    <2>1. CASE Store(v) \/ SetSettings(v) \/ Compare(v)
      BY <1>4, <2>1 DEF BaseInv, ModelOK, Saves, Store, SetSettings, Compare, SaveGoes, workerVars, requestVars
    <2>2. CASE Look(v)
      BY <1>4, <2>2 DEF BaseInv, ModelOK, Saves, Look, Ready, SaveGoes, workerVars, requestVars
    <2>3. CASE Point(v)
      <3>1. since' \in [Requests -> SUBSET Skills] /\ path' \in Skills
        BY <2>3 DEF BaseInv, ModelOK, Point
      <3> QED BY <1>4, <2>3, <3>1 DEF BaseInv, ModelOK, Saves, Point, SaveGoes, workerVars
    <2>4. CASE Drop(v)
      BY <1>0, <1>4, <2>4, AppendFacts DEF BaseInv, ModelOK, Saves, Drop, SaveGoes, workerVars, requestVars
    <2> QED BY <1>4, <2>1, <2>2, <2>3, <2>4 DEF Saves
  <1>5. ASSUME NEW r \in Requests, Ask(r) PROVE BaseInv'
    BY <1>0, <1>5, AppendFacts DEF BaseInv, ModelOK, Ask, saverVars, workerVars
  <1>6. CASE Works
    <2>1. CASE TakeUnload
      BY <1>0, <2>1, TailFacts DEF BaseInv, ModelOK, TakeUnload, saverVars, requestVars
    <2>2. CASE TakeRequest
      BY <1>0, <2>2, TailFacts DEF BaseInv, ModelOK, TakeRequest, saverVars, requestVars
    <2>3. CASE ReadPath \/ Load \/ IdleUnload
      BY <2>3 DEF BaseInv, ModelOK, ReadPath, Load, IdleUnload, saverVars, requestVars
    <2>4. CASE LoadFails \/ Generate
      BY <2>4 DEF BaseInv, ModelOK, LoadFails, Generate, Replies, saverVars
    <2> QED BY <1>6, <2>1, <2>2, <2>3, <2>4 DEF Works
  <1>7. CASE Crash
    BY <1>0, <1>7 DEF BaseInv, ModelOK, Crash, Ready
  <1> QED BY <1>1, <1>2, <1>3, <1>4, <1>5, <1>6, <1>7 DEF Next, Skill, vars

LEMMA NextModel == ASSUME OneSaver, ModelInv, [Next]_vars PROVE ModelInv'
  <1>1. ASSUME NEW v \in Savers, Saves(v) PROVE ModelInv'
    BY <1>1, StoreServes, SetServes, CompareServes, PointServes, LookServes, DropServes DEF Saves
  <1>2. CASE Works
    BY <1>2, TakeUnloadServes, TakeRequestServes, ReadPathServes, LoadServes, LoadFailsServes,
       GenerateServes, IdleServes DEF Works
  <1> QED BY <1>1, <1>2, StillServes, ReleaseServes, SaveServes, AskServes, RebootServes
          DEF Next, Skill, vars

-----------------------------------------------------------------------------
(* Theorems. *)

\* The strengthening of the skills holds always, with any number of panels that install,
\* remove and fail beside each other, and the process ending at any point.
THEOREM SkillsStrengthened == Spec => []SkillInv
  <1>1. Init => SkillInv
    BY InitSkills DEF Init
  <1> QED BY <1>1, NextSkills, PTL DEF Spec

\* Every variable of the skills, the settings and the worker stays in its type.
THEOREM TypeCorrect == Spec => []TypeOK
  <1>1. Init => BaseInv
    BY InitModel DEF ModelInv, WorkerInv, BaseInv, Init
  <1>2. SkillInv /\ BaseInv => TypeOK
    BY DEF SkillInv, BaseInv, TypeOK
  <1> QED BY <1>1, <1>2, NextBase, SkillsStrengthened, PTL DEF Spec

\* A file with the wrong content is under its name only while its writer checks it, or
\* since a crash in the middle of a check, or since it resisted its removal as a mapped file.
THEOREM ChecksPlaced == Spec => []PlacedChecked
  <1>1. SkillInv => PlacedChecked
    BY DEF SkillInv
  <1> QED BY <1>1, SkillsStrengthened, PTL

\* A skill at rest is whole or gone, but for two panels at once, a crash, or a mapped file.
THEOREM SkillsWhole == Spec => []SkillWhole
  <1>1. SkillInv => SkillWhole
    BY DEF SkillInv, WholeInv, SkillWhole, Removing, Busy
  <1> QED BY <1>1, SkillsStrengthened, PTL

\* With one save at a time, every answer comes from a tier in force since it was asked for.
THEOREM SwitchesServed ==
  ASSUME OneSaver
  PROVE  Spec => []SwitchServed
  <1>1. Init => ModelInv
    BY InitModel
  <1>2. ModelInv /\ [Next]_vars => ModelInv'
    BY OneSaver, NextModel
  <1>3. ModelInv => SwitchServed
    BY DEF ModelInv
  <1> QED BY <1>1, <1>2, <1>3, PTL DEF Spec
=============================================================================
