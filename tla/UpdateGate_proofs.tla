-------------------------- MODULE UpdateGate_proofs --------------------------
(***************************************************************************)
(* Proofs about UpdateGate and the sound detectors it extends: the type    *)
(* invariant, one install at a time, an owner for every row in progress,   *)
(* one alert for each of them and one detector on each microphone.         *)
(***************************************************************************)
EXTENDS UpdateGate, TLAPS

-----------------------------------------------------------------------------
(* The strengthening. *)

CamOK == \A d \in Tasks: phase[d] # "idle" => cam[d] \in Cams

\* What a task has in its hands, and when.
HandInv ==
    /\ \A d \in Tasks: phase[d] \notin {"reap", "final", "enter"} => inHand[d] = {}
    /\ \A d \in Tasks: phase[d] = "enter" => \A r, q \in inHand[d]: r = q
    /\ \A d \in Tasks: \A r \in inHand[d]: row[r] # "absent"

\* A row of the map is a row, in the map once.
MapInv ==
    /\ \A c \in Cams: open[c] # None => row[open[c]] # "absent"
    /\ \A b, c \in Cams: open[b] = open[c] /\ open[b] # None => b = c

\* Rows not alerted on yet: those not inserted, those about to enter the map, and those
\* in the map of cameras that are not in alerted.
AlertInv ==
    /\ \A r \in Sounds: row[r] = "absent" => alerts[r] = 0
    /\ \A d \in Tasks: phase[d] = "enter" =>
          \A r \in inHand[d]:
             /\ alerts[r] = 0
             /\ \A c \in Cams: open[c] # r
             /\ \A e \in Tasks: phase[e] = "enter" /\ r \in inHand[e] => e = d
    /\ \A c \in Cams \ alerted: open[c] # None => alerts[open[c]] = 0

\* An ffmpeg that runs is the one of audio_processes, and its task is in its loop.
RunInv ==
    /\ \A d \in running: phase[d] \in {"read", "reap", "detect", "insert", "enter"} /\ proc[cam[d]] = d
    /\ \A d \in listens: phase[d] \notin {"idle", "claim"}

\* Who is to detect has the claim, and nobody of the same camera is about to claim.
ClaimInv ==
    /\ \A d, e \in Tasks:
          phase[d] \in Starting /\ phase[e] \in Starting /\ cam[d] = cam[e] /\ cam[d] \notin mixed => d = e
    /\ \A d \in Tasks, e \in running:
          phase[d] \in Starting /\ cam[d] = cam[e] => cam[d] \in mixed
    /\ \A d \in listens:
          (phase[d] \in Starting \/ d \in running) /\ cam[d] \notin mixed => claim[MicOfTask(d)] = d

SoundInv ==
    /\ SoundOK /\ CamOK
    /\ HandInv /\ MapInv /\ OpenSoundsOwned
    /\ AlertInv /\ AlertedOnce
    /\ RunInv /\ ClaimInv

IInv == SoundInv /\ UpdateOK /\ OneInstall

-----------------------------------------------------------------------------
(* Every step of a detector keeps it. *)

LEMMA InitSound == SoundInit => SoundInv
  <1> SUFFICES ASSUME SoundInit PROVE SoundInv
    OBVIOUS
  <1> USE MicAssumption, NoneAssumption, BoundAssumption
  <1>1. SoundOK /\ CamOK
    BY DEF SoundInit, SoundOK, CamOK, TaskTypes, ProcTypes, SoundTypes, Phases
  <1>2. HandInv /\ MapInv /\ OpenSoundsOwned
    BY DEF SoundInit, HandInv, MapInv, OpenSoundsOwned
  <1>3. AlertInv /\ AlertedOnce
    BY DEF SoundInit, AlertInv, AlertedOnce
  <1>4. RunInv /\ ClaimInv
    BY DEF SoundInit, RunInv, ClaimInv, Starting
  <1> QED BY <1>1, <1>2, <1>3, <1>4 DEF SoundInv

LEMMA StartKeeps ==
  ASSUME SoundInv, NEW c \in Cams, NEW d \in Tasks, Start(c, d)
  PROVE  SoundInv'
  <1> USE MicAssumption, NoneAssumption, BoundAssumption
  <1> USE DEF SoundInv, SoundOK, Start, Act, Kill, Goes, openVars, rowVars, histVars
  <1>1. SoundOK'
    BY DEF TaskTypes, ProcTypes, SoundTypes, Phases, Starting, CamOK
  <1>2. CamOK'
    BY DEF TaskTypes, CamOK
  <1>3. HandInv'
    BY DEF HandInv, TaskTypes, SoundTypes
  <1>4. MapInv'
    BY DEF MapInv, HandInv, TaskTypes, SoundTypes, CamOK
  <1>5. OpenSoundsOwned'
    BY DEF OpenSoundsOwned, HandInv, TaskTypes, SoundTypes, CamOK
  <1>6. AlertInv'
    BY DEF AlertInv, HandInv, MapInv, TaskTypes, SoundTypes, CamOK
  <1>7. AlertedOnce'
    BY DEF AlertedOnce, AlertInv, SoundTypes, CamOK, TaskTypes
  <1>8. RunInv'
    BY DEF RunInv, TaskTypes, ProcTypes, CamOK
  <1>9. ClaimInv'
    BY DEF ClaimInv, RunInv, TaskTypes, ProcTypes, SoundTypes, CamOK, Starting, MicOfTask
  <1> QED BY <1>1, <1>2, <1>3, <1>4, <1>5, <1>6, <1>7, <1>8, <1>9

LEMMA StopKeeps ==
  ASSUME SoundInv, NEW c \in Cams, NEW d \in Tasks, Stop(c, d)
  PROVE  SoundInv'
  <1> USE MicAssumption, NoneAssumption, BoundAssumption
  <1> USE DEF SoundInv, SoundOK, Stop, Act, Kill, Goes, openVars, rowVars, histVars
  <1>1. SoundOK'
    BY DEF TaskTypes, ProcTypes, SoundTypes, Phases, Starting, CamOK
  <1>2. CamOK'
    BY DEF TaskTypes, CamOK
  <1>3. HandInv'
    BY DEF HandInv, TaskTypes, SoundTypes
  <1>4. MapInv'
    BY DEF MapInv, HandInv, TaskTypes, SoundTypes, CamOK
  <1>5. OpenSoundsOwned'
    BY DEF OpenSoundsOwned, HandInv, TaskTypes, SoundTypes, CamOK
  <1>6. AlertInv'
    BY DEF AlertInv, HandInv, MapInv, TaskTypes, SoundTypes, CamOK
  <1>7. AlertedOnce'
    BY DEF AlertedOnce, AlertInv, SoundTypes, CamOK, TaskTypes
  <1>8. RunInv'
    BY DEF RunInv, TaskTypes, ProcTypes, CamOK
  <1>9. ClaimInv'
    BY DEF ClaimInv, RunInv, TaskTypes, ProcTypes, SoundTypes, CamOK, Starting, MicOfTask
  <1> QED BY <1>1, <1>2, <1>3, <1>4, <1>5, <1>6, <1>7, <1>8, <1>9

LEMMA ClaimKeeps ==
  ASSUME SoundInv, NEW d \in Tasks, Claim(d)
  PROVE  SoundInv'
  <1> USE MicAssumption, NoneAssumption, BoundAssumption
  <1> USE DEF SoundInv, SoundOK, Claim, TakenFrom, Goes, Ends, openVars, rowVars, histVars
  <1>1. SoundOK'
    BY DEF TaskTypes, ProcTypes, SoundTypes, Phases, Starting, CamOK
  <1>2. CamOK'
    BY DEF TaskTypes, CamOK
  <1>3. HandInv'
    BY DEF HandInv, TaskTypes, SoundTypes
  <1>4. MapInv'
    BY DEF MapInv, HandInv, TaskTypes, SoundTypes, CamOK
  <1>5. OpenSoundsOwned'
    BY DEF OpenSoundsOwned, HandInv, TaskTypes, SoundTypes, CamOK
  <1>6. AlertInv'
    BY DEF AlertInv, HandInv, MapInv, TaskTypes, SoundTypes, CamOK
  <1>7. AlertedOnce'
    BY DEF AlertedOnce, AlertInv, SoundTypes, CamOK, TaskTypes
  <1>8. RunInv'
    BY DEF RunInv, TaskTypes, ProcTypes, CamOK
  <1>9. ClaimInv'
    BY DEF ClaimInv, RunInv, TaskTypes, ProcTypes, SoundTypes, CamOK, Starting, MicOfTask
  <1> QED BY <1>1, <1>2, <1>3, <1>4, <1>5, <1>6, <1>7, <1>8, <1>9

LEMMA OrphansKeeps ==
  ASSUME SoundInv, NEW d \in Tasks, Orphans(d)
  PROVE  SoundInv'
  <1> USE MicAssumption, NoneAssumption, BoundAssumption
  <1> USE DEF SoundInv, SoundOK, Orphans, Goes, procVars, openVars, histVars
  <1>1. SoundOK'
    BY DEF TaskTypes, ProcTypes, SoundTypes, Phases, Starting, CamOK
  <1>2. CamOK'
    BY DEF TaskTypes, CamOK
  <1>3. HandInv'
    BY DEF HandInv, TaskTypes, SoundTypes
  <1>4. MapInv'
    BY DEF MapInv, HandInv, TaskTypes, SoundTypes, CamOK
  <1>5. OpenSoundsOwned'
    BY DEF OpenSoundsOwned, HandInv, TaskTypes, SoundTypes, CamOK
  <1>6. AlertInv'
    BY DEF AlertInv, HandInv, MapInv, TaskTypes, SoundTypes, CamOK
  <1>7. AlertedOnce'
    BY DEF AlertedOnce, AlertInv, SoundTypes, CamOK, TaskTypes
  <1>8. RunInv'
    BY DEF RunInv, TaskTypes, ProcTypes, CamOK
  <1>9. ClaimInv'
    BY DEF ClaimInv, RunInv, TaskTypes, ProcTypes, SoundTypes, CamOK, Starting, MicOfTask
  <1> QED BY <1>1, <1>2, <1>3, <1>4, <1>5, <1>6, <1>7, <1>8, <1>9

LEMMA SpawnKeeps ==
  ASSUME SoundInv, NEW d \in Tasks, Spawn(d)
  PROVE  SoundInv'
  <1> USE MicAssumption, NoneAssumption, BoundAssumption
  <1> USE DEF SoundInv, SoundOK, Spawn, Released, Act, Goes, Ends, openVars, rowVars, histVars
  <1>1. SoundOK'
    BY DEF TaskTypes, ProcTypes, SoundTypes, Phases, Starting, CamOK
  <1>2. CamOK'
    BY DEF TaskTypes, CamOK
  <1>3. HandInv'
    BY DEF HandInv, TaskTypes, SoundTypes
  <1>4. MapInv'
    BY DEF MapInv, HandInv, TaskTypes, SoundTypes, CamOK
  <1>5. OpenSoundsOwned'
    BY DEF OpenSoundsOwned, HandInv, TaskTypes, SoundTypes, CamOK
  <1>6. AlertInv'
    BY DEF AlertInv, HandInv, MapInv, TaskTypes, SoundTypes, CamOK
  <1>7. AlertedOnce'
    BY DEF AlertedOnce, AlertInv, SoundTypes, CamOK, TaskTypes
  <1>8. RunInv'
    BY DEF RunInv, TaskTypes, ProcTypes, CamOK
  <1>9. ClaimInv'
    BY DEF ClaimInv, RunInv, TaskTypes, ProcTypes, SoundTypes, CamOK, Starting, MicOfTask
  <1> QED BY <1>1, <1>2, <1>3, <1>4, <1>5, <1>6, <1>7, <1>8, <1>9

LEMMA WindowKeeps ==
  ASSUME SoundInv, NEW d \in Tasks, Window(d)
  PROVE  SoundInv'
  <1> USE MicAssumption, NoneAssumption, BoundAssumption
  <1> USE DEF SoundInv, SoundOK, Window, Heard, Reaped, AfterReap, Goes, procVars, rowVars, histVars
  <1>1. SoundOK'
    BY DEF TaskTypes, ProcTypes, SoundTypes, Phases, Starting, CamOK
  <1>2. CamOK'
    BY DEF TaskTypes, CamOK
  <1>3. HandInv'
    <2>1. \A r \in inHand'[d]: row'[r] # "absent"
      BY DEF MapInv, TaskTypes
    <2>2. phase'[d] = "reap" \/ (phase'[d] \in {"detect", "read"} /\ inHand'[d] = {})
      BY DEF TaskTypes
    <2>3. \A e \in Tasks \ {d}: inHand'[e] = inHand[e] /\ phase'[e] = phase[e]
      BY DEF TaskTypes
    <2>4. UNCHANGED row
      OBVIOUS
    <2>5. HandInv
      OBVIOUS
    <2> HIDE DEF SoundInv, Window
    <2> SUFFICES ASSUME NEW e \in Tasks
                 PROVE  /\ phase'[e] \notin {"reap", "final", "enter"} => inHand'[e] = {}
                        /\ phase'[e] = "enter" => \A r, q \in inHand'[e]: r = q
                        /\ \A r \in inHand'[e]: row'[r] # "absent"
      BY DEF HandInv
    <2> QED BY <2>1, <2>2, <2>3, <2>4, <2>5 DEF HandInv
  <1>4. MapInv'
    BY DEF MapInv, HandInv, TaskTypes, SoundTypes, CamOK
  <1>5. OpenSoundsOwned'
    BY DEF OpenSoundsOwned, HandInv, TaskTypes, SoundTypes, CamOK
  <1>6. AlertInv'
    BY DEF AlertInv, HandInv, MapInv, TaskTypes, SoundTypes, CamOK
  <1>7. AlertedOnce'
    BY DEF AlertedOnce, AlertInv, SoundTypes, CamOK, TaskTypes
  <1>8. RunInv'
    BY DEF RunInv, TaskTypes, ProcTypes, CamOK
  <1>9. ClaimInv'
    BY DEF ClaimInv, RunInv, TaskTypes, ProcTypes, SoundTypes, CamOK, Starting, MicOfTask
  <1> QED BY <1>1, <1>2, <1>3, <1>4, <1>5, <1>6, <1>7, <1>8, <1>9

LEMMA FinaliseKeeps ==
  ASSUME SoundInv, NEW d \in Tasks, NEW r \in Sounds, Finalise(d, r)
  PROVE  SoundInv'
  <1> USE MicAssumption, NoneAssumption, BoundAssumption
  <1> USE DEF SoundInv, SoundOK, Finalise, AfterReap, Goes, Ends, procVars, openVars, histVars
  <1>1. SoundOK'
    BY DEF TaskTypes, ProcTypes, SoundTypes, Phases, Starting, CamOK
  <1>2. CamOK'
    BY DEF TaskTypes, CamOK
  <1>3. HandInv'
    BY DEF HandInv, TaskTypes, SoundTypes
  <1>4. MapInv'
    BY DEF MapInv, HandInv, TaskTypes, SoundTypes, CamOK
  <1>5. OpenSoundsOwned'
    BY DEF OpenSoundsOwned, HandInv, TaskTypes, SoundTypes, CamOK
  <1>6. AlertInv'
    BY DEF AlertInv, HandInv, MapInv, TaskTypes, SoundTypes, CamOK
  <1>7. AlertedOnce'
    BY DEF AlertedOnce, AlertInv, SoundTypes, CamOK, TaskTypes
  <1>8. RunInv'
    BY DEF RunInv, TaskTypes, ProcTypes, CamOK
  <1>9. ClaimInv'
    BY DEF ClaimInv, RunInv, TaskTypes, ProcTypes, SoundTypes, CamOK, Starting, MicOfTask
  <1> QED BY <1>1, <1>2, <1>3, <1>4, <1>5, <1>6, <1>7, <1>8, <1>9

LEMMA NothingKeeps ==
  ASSUME SoundInv, NEW d \in Tasks, Nothing(d)
  PROVE  SoundInv'
  <1> USE MicAssumption, NoneAssumption, BoundAssumption
  <1> USE DEF SoundInv, SoundOK, Nothing, Goes, procVars, openVars, rowVars, histVars
  <1>1. SoundOK'
    BY DEF TaskTypes, ProcTypes, SoundTypes, Phases, Starting, CamOK
  <1>2. CamOK'
    BY DEF TaskTypes, CamOK
  <1>3. HandInv'
    BY DEF HandInv, TaskTypes, SoundTypes
  <1>4. MapInv'
    BY DEF MapInv, HandInv, TaskTypes, SoundTypes, CamOK
  <1>5. OpenSoundsOwned'
    BY DEF OpenSoundsOwned, HandInv, TaskTypes, SoundTypes, CamOK
  <1>6. AlertInv'
    BY DEF AlertInv, HandInv, MapInv, TaskTypes, SoundTypes, CamOK
  <1>7. AlertedOnce'
    BY DEF AlertedOnce, AlertInv, SoundTypes, CamOK, TaskTypes
  <1>8. RunInv'
    BY DEF RunInv, TaskTypes, ProcTypes, CamOK
  <1>9. ClaimInv'
    BY DEF ClaimInv, RunInv, TaskTypes, ProcTypes, SoundTypes, CamOK, Starting, MicOfTask
  <1> QED BY <1>1, <1>2, <1>3, <1>4, <1>5, <1>6, <1>7, <1>8, <1>9

LEMMA HitKeeps ==
  ASSUME SoundInv, NEW d \in Tasks, Hit(d)
  PROVE  SoundInv'
  <1> USE MicAssumption, NoneAssumption, BoundAssumption
  <1> USE DEF SoundInv, SoundOK, Hit, Alert, Goes, procVars, histVars
  <1>1. SoundOK'
    BY DEF TaskTypes, ProcTypes, SoundTypes, Phases, Starting, CamOK
  <1>2. CamOK'
    BY DEF TaskTypes, CamOK
  <1>3. HandInv'
    BY DEF HandInv, TaskTypes, SoundTypes
  <1>4. MapInv'
    BY DEF MapInv, HandInv, TaskTypes, SoundTypes, CamOK
  <1>5. OpenSoundsOwned'
    BY DEF OpenSoundsOwned, HandInv, TaskTypes, SoundTypes, CamOK
  <1>6. AlertInv'
    BY DEF AlertInv, HandInv, MapInv, TaskTypes, SoundTypes, CamOK
  <1>7. AlertedOnce'
    BY DEF AlertedOnce, AlertInv, SoundTypes, CamOK, TaskTypes
  <1>8. RunInv'
    BY DEF RunInv, TaskTypes, ProcTypes, CamOK
  <1>9. ClaimInv'
    BY DEF ClaimInv, RunInv, TaskTypes, ProcTypes, SoundTypes, CamOK, Starting, MicOfTask
  <1> QED BY <1>1, <1>2, <1>3, <1>4, <1>5, <1>6, <1>7, <1>8, <1>9

LEMMA InsertKeeps ==
  ASSUME SoundInv, NEW d \in Tasks, NEW r \in Sounds, Insert(d, r)
  PROVE  SoundInv'
  <1> USE MicAssumption, NoneAssumption, BoundAssumption
  <1> USE DEF SoundInv, SoundOK, Insert, Goes, procVars, openVars, histVars
  <1>1. SoundOK'
    BY DEF TaskTypes, ProcTypes, SoundTypes, Phases, Starting, CamOK
  <1>2. CamOK'
    BY DEF TaskTypes, CamOK
  <1>3. HandInv'
    BY DEF HandInv, TaskTypes, SoundTypes
  <1>4. MapInv'
    BY DEF MapInv, HandInv, TaskTypes, SoundTypes, CamOK
  <1>5. OpenSoundsOwned'
    BY DEF OpenSoundsOwned, HandInv, TaskTypes, SoundTypes, CamOK
  <1>6. AlertInv'
    BY DEF AlertInv, HandInv, MapInv, TaskTypes, SoundTypes, CamOK
  <1>7. AlertedOnce'
    BY DEF AlertedOnce, AlertInv, SoundTypes, CamOK, TaskTypes
  <1>8. RunInv'
    BY DEF RunInv, TaskTypes, ProcTypes, CamOK
  <1>9. ClaimInv'
    BY DEF ClaimInv, RunInv, TaskTypes, ProcTypes, SoundTypes, CamOK, Starting, MicOfTask
  <1> QED BY <1>1, <1>2, <1>3, <1>4, <1>5, <1>6, <1>7, <1>8, <1>9

LEMMA EnterKeeps ==
  ASSUME SoundInv, NEW d \in Tasks, NEW r \in Sounds, NEW critical \in BOOLEAN, Enter(d, r, critical)
  PROVE  SoundInv'
  <1> USE MicAssumption, NoneAssumption, BoundAssumption
  <1> USE DEF SoundInv, SoundOK, Enter, Alerted, Alert, Goes, procVars
  <1>1. SoundOK'
    BY DEF TaskTypes, ProcTypes, SoundTypes, Phases, Starting, CamOK
  <1>2. CamOK'
    BY DEF TaskTypes, CamOK
  <1>3. HandInv'
    <2>1. inHand'[d] = {} /\ phase'[d] = "read"
      BY DEF TaskTypes
    <2>2. \A e \in Tasks \ {d}: inHand'[e] = inHand[e] /\ phase'[e] = phase[e]
      BY DEF TaskTypes
    <2>3. UNCHANGED row
      OBVIOUS
    <2> QED BY <2>1, <2>2, <2>3 DEF HandInv
  <1>4. MapInv'
    BY DEF MapInv, HandInv, AlertInv, TaskTypes, SoundTypes, CamOK
  <1>5. OpenSoundsOwned'
    BY DEF OpenSoundsOwned, HandInv, TaskTypes, SoundTypes, CamOK
  <1>6. AlertInv'
    BY DEF AlertInv, HandInv, MapInv, TaskTypes, SoundTypes, CamOK
  <1>7. AlertedOnce'
    BY DEF AlertedOnce, AlertInv, SoundTypes, CamOK, TaskTypes
  <1>8. RunInv'
    BY DEF RunInv, TaskTypes, ProcTypes, CamOK
  <1>9. ClaimInv'
    BY DEF ClaimInv, RunInv, TaskTypes, ProcTypes, SoundTypes, CamOK, Starting, MicOfTask
  <1> QED BY <1>1, <1>2, <1>3, <1>4, <1>5, <1>6, <1>7, <1>8, <1>9

LEMMA EofKeeps ==
  ASSUME SoundInv, NEW d \in Tasks, Eof(d)
  PROVE  SoundInv'
  <1> USE MicAssumption, NoneAssumption, BoundAssumption
  <1> USE DEF SoundInv, SoundOK, Eof, Released, Goes, openVars, rowVars, histVars
  <1>1. SoundOK'
    BY DEF TaskTypes, ProcTypes, SoundTypes, Phases, Starting, CamOK
  <1>2. CamOK'
    BY DEF TaskTypes, CamOK
  <1>3. HandInv'
    BY DEF HandInv, TaskTypes, SoundTypes
  <1>4. MapInv'
    BY DEF MapInv, HandInv, TaskTypes, SoundTypes, CamOK
  <1>5. OpenSoundsOwned'
    BY DEF OpenSoundsOwned, HandInv, TaskTypes, SoundTypes, CamOK
  <1>6. AlertInv'
    BY DEF AlertInv, HandInv, MapInv, TaskTypes, SoundTypes, CamOK
  <1>7. AlertedOnce'
    BY DEF AlertedOnce, AlertInv, SoundTypes, CamOK, TaskTypes
  <1>8. RunInv'
    BY DEF RunInv, TaskTypes, ProcTypes, CamOK
  <1>9. ClaimInv'
    BY DEF ClaimInv, RunInv, TaskTypes, ProcTypes, SoundTypes, CamOK, Starting, MicOfTask
  <1> QED BY <1>1, <1>2, <1>3, <1>4, <1>5, <1>6, <1>7, <1>8, <1>9

LEMMA CloseForCamKeeps ==
  ASSUME SoundInv, NEW d \in Tasks, CloseForCam(d)
  PROVE  SoundInv'
  <1> USE MicAssumption, NoneAssumption, BoundAssumption
  <1> USE DEF SoundInv, SoundOK, CloseForCam, Heard, Closing, Goes, Ends, procVars, rowVars, histVars
  <1>1. SoundOK'
    BY DEF TaskTypes, ProcTypes, SoundTypes, Phases, Starting, CamOK
  <1>2. CamOK'
    BY DEF TaskTypes, CamOK
  <1>3. HandInv'
    BY DEF HandInv, TaskTypes, SoundTypes, MapInv, CamOK
  <1>4. MapInv'
    BY DEF MapInv, HandInv, TaskTypes, SoundTypes, CamOK
  <1>5. OpenSoundsOwned'
    BY DEF OpenSoundsOwned, HandInv, TaskTypes, SoundTypes, CamOK
  <1>6. AlertInv'
    BY DEF AlertInv, HandInv, MapInv, TaskTypes, SoundTypes, CamOK
  <1>7. AlertedOnce'
    BY DEF AlertedOnce, AlertInv, SoundTypes, CamOK, TaskTypes
  <1>8. RunInv'
    BY DEF RunInv, TaskTypes, ProcTypes, CamOK
  <1>9. ClaimInv'
    BY DEF ClaimInv, RunInv, TaskTypes, ProcTypes, SoundTypes, CamOK, Starting, MicOfTask
  <1> QED BY <1>1, <1>2, <1>3, <1>4, <1>5, <1>6, <1>7, <1>8, <1>9

LEMMA DiesKeeps ==
  ASSUME SoundInv, NEW d \in Tasks, Dies(d)
  PROVE  SoundInv'
  <1> USE MicAssumption, NoneAssumption, BoundAssumption
  <1> USE DEF SoundInv, SoundOK, Dies, Act, taskVars, openVars, rowVars, histVars
  <1>1. SoundOK'
    BY DEF TaskTypes, ProcTypes, SoundTypes, Phases, Starting, CamOK
  <1>2. CamOK'
    BY DEF TaskTypes, CamOK
  <1>3. HandInv'
    BY DEF HandInv, TaskTypes, SoundTypes
  <1>4. MapInv'
    BY DEF MapInv, HandInv, TaskTypes, SoundTypes, CamOK
  <1>5. OpenSoundsOwned'
    BY DEF OpenSoundsOwned, HandInv, TaskTypes, SoundTypes, CamOK
  <1>6. AlertInv'
    BY DEF AlertInv, HandInv, MapInv, TaskTypes, SoundTypes, CamOK
  <1>7. AlertedOnce'
    BY DEF AlertedOnce, AlertInv, SoundTypes, CamOK, TaskTypes
  <1>8. RunInv'
    BY DEF RunInv, TaskTypes, ProcTypes, CamOK
  <1>9. ClaimInv'
    BY DEF ClaimInv, RunInv, TaskTypes, ProcTypes, SoundTypes, CamOK, Starting, MicOfTask
  <1> QED BY <1>1, <1>2, <1>3, <1>4, <1>5, <1>6, <1>7, <1>8, <1>9

LEMMA RebootKeeps ==
  ASSUME SoundInv, acts' \in 0..MaxActs, Reboot
  PROVE  SoundInv'
  <1> USE MicAssumption, NoneAssumption, BoundAssumption
  <1> USE DEF SoundInv, SoundOK, Reboot, histVars
  <1>1. SoundOK'
    BY DEF TaskTypes, ProcTypes, SoundTypes, Phases, Starting, CamOK
  <1>2. CamOK'
    BY DEF TaskTypes, CamOK
  <1>3. HandInv'
    BY DEF HandInv, TaskTypes, SoundTypes
  <1>4. MapInv'
    BY DEF MapInv, HandInv, TaskTypes, SoundTypes, CamOK
  <1>5. OpenSoundsOwned'
    BY DEF OpenSoundsOwned, HandInv, TaskTypes, SoundTypes, CamOK
  <1>6. AlertInv'
    BY DEF AlertInv, HandInv, MapInv, TaskTypes, SoundTypes, CamOK
  <1>7. AlertedOnce'
    BY DEF AlertedOnce, AlertInv, SoundTypes, CamOK, TaskTypes
  <1>8. RunInv'
    BY DEF RunInv, TaskTypes, ProcTypes, CamOK
  <1>9. ClaimInv'
    BY DEF ClaimInv, RunInv, TaskTypes, ProcTypes, SoundTypes, CamOK, Starting, MicOfTask
  <1> QED BY <1>1, <1>2, <1>3, <1>4, <1>5, <1>6, <1>7, <1>8, <1>9

\* A step that touches only the count of acts.
LEMMA ActsKeep ==
  ASSUME SoundInv, UNCHANGED machineVars, acts' \in 0..MaxActs
  PROVE  SoundInv'
  <1> USE DEF SoundInv, SoundOK, machineVars, taskVars, procVars, openVars, rowVars, histVars
  <1>1. SoundOK' /\ CamOK'
    BY DEF TaskTypes, ProcTypes, SoundTypes, CamOK
  <1>2. HandInv' /\ MapInv' /\ OpenSoundsOwned'
    BY DEF HandInv, MapInv, OpenSoundsOwned
  <1>3. AlertInv' /\ AlertedOnce'
    BY DEF AlertInv, AlertedOnce
  <1>4. RunInv' /\ ClaimInv'
    BY DEF RunInv, ClaimInv, MicOfTask
  <1> QED BY <1>1, <1>2, <1>3, <1>4

LEMMA SoundNextKeeps ==
  ASSUME SoundInv, SoundNext
  PROVE  SoundInv'
  <1>1. ASSUME NEW c \in Cams, NEW d \in Tasks, Start(c, d) \/ Stop(c, d) PROVE SoundInv'
    BY <1>1, StartKeeps, StopKeeps
  <1>2. ASSUME NEW d \in Tasks, Detector(d) PROVE SoundInv'
    <2>1. CASE Claim(d) \/ Orphans(d) \/ Spawn(d) \/ Window(d) \/ Nothing(d) \/ Hit(d)
      BY <2>1, ClaimKeeps, OrphansKeeps, SpawnKeeps, WindowKeeps, NothingKeeps, HitKeeps
    <2>2. CASE \E r \in Sounds: Finalise(d, r) \/ Insert(d, r)
      BY <2>2, FinaliseKeeps, InsertKeeps
    <2>3. CASE \E r \in Sounds, critical \in BOOLEAN: Enter(d, r, critical)
      BY <2>3, EnterKeeps
    <2>4. CASE Eof(d) \/ CloseForCam(d)
      BY <2>4, EofKeeps, CloseForCamKeeps
    <2> QED BY <1>2, <2>1, <2>2, <2>3, <2>4 DEF Detector
  <1>3. ASSUME NEW d \in Tasks, Dies(d) PROVE SoundInv'
    BY <1>3, DiesKeeps
  <1> QED BY <1>1, <1>2, <1>3 DEF SoundNext, Calls

-----------------------------------------------------------------------------
(* And so does every step of an update. *)

LEMMA Init_IInv == Init => IInv
  <1> SUFFICES ASSUME Init PROVE IInv
    OBVIOUS
  <1>1. SoundInv
    BY InitSound DEF Init
  <1>2. UpdateOK /\ OneInstall
    <2>1. polls \in 0..MaxPolls
      BY PollAssumption DEF Init
    <2> QED BY <2>1 DEF Init, UpdateOK, OneInstall
  <1> QED BY <1>1, <1>2 DEF IInv

LEMMA Next_IInv ==
  ASSUME IInv, [Next]_vars
  PROVE  IInv'
  <1> USE PollAssumption, BoundAssumption
  <1>0. /\ SoundInv /\ UpdateOK /\ OneInstall
        /\ acts \in 0..MaxActs
    BY DEF IInv, SoundInv, SoundOK
  <1>1. CASE SoundNext /\ UNCHANGED updateVars
    <2>1. SoundInv'
      BY <1>0, <1>1, SoundNextKeeps
    <2>2. UpdateOK' /\ OneInstall'
      BY <1>0, <1>1 DEF UpdateOK, OneInstall, updateVars
    <2> QED BY <2>1, <2>2 DEF IInv
  <1>2. CASE Switch \/ Press \/ ManualFails \/ AutoFails
    <2>1. UNCHANGED machineVars /\ acts' \in 0..MaxActs
      BY <1>0, <1>2 DEF Switch, Press, ManualFails, AutoFails, Act
    <2>2. SoundInv'
      BY <1>0, <2>1, ActsKeep
    <2>3. UpdateOK'
      BY <1>0, <1>2 DEF UpdateOK, Switch, Press, ManualFails, AutoFails
    <2>4. OneInstall'
      BY <1>0, <1>2 DEF UpdateOK, OneInstall, Switch, Press, ManualFails, AutoFails
    <2> QED BY <2>2, <2>3, <2>4 DEF IInv
  <1>3. CASE ManualGoesOn \/ AutoFinds \/ AutoTakes \/ AutoDownloads \/ AutoPolls \/ AutoDecides
    <2>1. UNCHANGED machineVars /\ acts' \in 0..MaxActs
      BY <1>0, <1>3 DEF soundVars, ManualGoesOn, AutoFinds, AutoTakes, AutoDownloads, AutoPolls, AutoDecides
    <2>2. SoundInv'
      BY <1>0, <2>1, ActsKeep
    <2>3. UpdateOK'
      <3>1. CASE ManualGoesOn
        BY <1>0, <3>1 DEF UpdateOK, ManualGoesOn
      <3>2. CASE AutoFinds
        BY <1>0, <3>2 DEF UpdateOK, AutoFinds
      <3>3. CASE AutoTakes
        BY <1>0, <3>3 DEF UpdateOK, AutoTakes
      <3>4. CASE AutoDownloads
        BY <1>0, <3>4 DEF UpdateOK, AutoDownloads
      <3>5. CASE AutoPolls
        BY <1>0, <3>5 DEF UpdateOK, AutoPolls
      <3>6. CASE AutoDecides
        BY <1>0, <3>6 DEF UpdateOK, AutoDecides, Given
      <3> QED BY <1>3, <3>1, <3>2, <3>3, <3>4, <3>5, <3>6
    <2>4. OneInstall'
      BY <1>0, <1>3 DEF UpdateOK, OneInstall, ManualGoesOn, AutoFinds, AutoTakes, AutoDownloads, AutoPolls, AutoDecides, Given
    <2> QED BY <2>2, <2>3, <2>4 DEF IInv
  <1>4. CASE AutoInstalls \/ ManualInstalls \/ Crash
    <2>1. acts' \in 0..MaxActs /\ Restarts
      BY <1>0, <1>4 DEF AutoInstalls, ManualInstalls, Crash, Act
    <2>2. SoundInv'
      BY <1>0, <2>1, RebootKeeps DEF Restarts
    <2>3. UpdateOK'
      <3>1. installed' \in BOOLEAN /\ wants' \in BOOLEAN
        BY <1>0, <1>4, <2>1 DEF UpdateOK, Restarts, AutoInstalls, ManualInstalls, Crash
      <3>2. auto' = "idle" /\ manual' = "idle" /\ polls' \in 0..MaxPolls /\ installing' = FALSE
        BY <2>1 DEF Restarts
      <3> QED BY <3>1, <3>2 DEF UpdateOK
    <2>4. OneInstall'
      BY <2>1 DEF OneInstall, Restarts
    <2> QED BY <2>2, <2>3, <2>4 DEF IInv
  <1>5. CASE UNCHANGED vars
    <2>1. UNCHANGED machineVars /\ UNCHANGED updateVars /\ acts' = acts
      BY <1>5 DEF vars, soundVars
    <2>2. SoundInv'
      BY <1>0, <2>1, ActsKeep
    <2>3. UpdateOK' /\ OneInstall'
      BY <1>0, <2>1 DEF UpdateOK, OneInstall, updateVars
    <2> QED BY <2>2, <2>3 DEF IInv
  <1> QED BY <1>1, <1>2, <1>3, <1>4, <1>5 DEF Next, Manual, Automatic

-----------------------------------------------------------------------------
(* Theorems. *)

\* The strengthening holds always: detectors may start, die and overlap, and the process
\* crash or restart into an update, at any point.
THEOREM Strengthened == Spec => []IInv
  BY Init_IInv, Next_IInv, PTL DEF Spec

\* Every variable of the detectors and of the update stays in its type.
THEOREM TypeCorrect == Spec => []TypeOK
  <1>1. IInv => TypeOK
    BY DEF IInv, SoundInv, TypeOK
  <1> QED BY <1>1, Strengthened, PTL

\* INSTALLING is set exactly while one of the two paths installs, and never both do.
THEOREM InstallsOne == Spec => []OneInstall
  <1>1. IInv => OneInstall
    BY DEF IInv
  <1> QED BY <1>1, Strengthened, PTL

\* Whatever is in progress is in OPEN_AUDIO or in the hands of a task, but for rows that
\* two overlapping starts lost.
THEOREM SoundsOwned == Spec => []OpenSoundsOwned
  <1>1. IInv => OpenSoundsOwned
    BY DEF IInv, SoundInv
  <1> QED BY <1>1, Strengthened, PTL

\* A sound is alerted on at most once, however it is heard, closed and heard again.
THEOREM AlertOnce == Spec => []AlertedOnce
  <1>1. IInv => AlertedOnce
    BY DEF IInv, SoundInv
  <1> QED BY <1>1, Strengthened, PTL

\* Of the cameras on a microphone one detects: both would hold the claim.
THEOREM ListensOne == Spec => []OneListener
  <1>1. IInv => OneListener
    BY DEF IInv, SoundInv, ClaimInv, OneListener, MicOfTask
  <1> QED BY <1>1, Strengthened, PTL
=============================================================================
