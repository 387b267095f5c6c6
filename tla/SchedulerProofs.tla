--------------------------- MODULE SchedulerProofs ---------------------------
(***************************************************************************)
(* Theorems about Scheduler for any sources, intervals and bounds.         *)
(***************************************************************************)
EXTENDS Scheduler, TLAPS

\* Every step keeps the schedule and the service well typed.
LEMMA TypeStep == ASSUME TypeOK, [Next]_vars PROVE TypeOK'
<1> USE SchedulerAssumption
    DEF TypeOK, scheduleVars, serviceVars, operatorVars, Goto, NoCommand
<1>1. CASE Start \/ BeginCycle \/ EndCycle
  BY <1>1 DEF Start, BeginCycle, EndCycle
<1>2. CASE TickSave \/ TickSaveFails
  <2>1. interval[source] \in Nat
    OBVIOUS
  <2>2. next' \in [Sources -> Int] /\ paused' \in [Sources -> BOOLEAN]
    <3>1. CASE WriteNext
      <4>1. current + interval[source] \in Int
        BY <2>1
      <4>2. next' \in [Sources -> Int]
        BY <3>1, <4>1 DEF WriteNext
      <4>3. paused' \in [Sources -> BOOLEAN]
        BY <3>1 DEF WriteNext
      <4> QED
        BY <4>2, <4>3
    <3>2. CASE UNCHANGED scheduleVars
      BY <3>2
    <3> QED
      BY <1>2, <3>1, <3>2 DEF TickSave, TickSaveFails
  <2> QED
    BY <1>2, <2>2 DEF TickSave, TickSaveFails, WriteNext
<1>3. CASE TickDispatch \/ TickDispatchFails
  BY <1>3 DEF TickDispatch, TickDispatchFails
<1>4. ASSUME NEW s \in Sources, Register(s) PROVE TypeOK'
  <2>1. /\ known' \subseteq Sources /\ next' \in [Sources -> Int]
        /\ paused' \in [Sources -> BOOLEAN] /\ interval' \in [Sources -> Intervals]
    <3>1. CASE UNCHANGED scheduleVars
      BY <3>1
    <3>2. CASE s \notin known
      <4>1. current \in Int
        OBVIOUS
      <4>2. next' \in [Sources -> Int]
        BY <1>4, <3>2, <4>1 DEF Register
      <4>3. paused' \in [Sources -> BOOLEAN]
        BY <1>4, <3>2 DEF Register
      <4>4. interval' \in [Sources -> Intervals]
        BY <1>4, <3>2 DEF Register
      <4> QED
        BY <1>4, <3>2, <4>2, <4>3, <4>4 DEF Register
    <3> QED
      BY <1>4, <3>1, <3>2 DEF Register
  <2> QED
    BY <1>4, <2>1 DEF Register
<1>5. ASSUME NEW s \in Sources, RegisterFails(s) \/ TickLoad(s) \/ TickLoadFails(s)
      PROVE  TypeOK'
  BY <1>5 DEF RegisterFails, TickLoad, TickLoadFails
<1>6. ASSUME NEW s \in Sources, NEW value \in BOOLEAN, PauseLoad(s, value)
      PROVE  TypeOK'
  <2>1. [pause |-> value, next |-> next[s]] \in [pause : BOOLEAN, next : Int]
    OBVIOUS
  <2>2. command' \in [Sources -> [pause : BOOLEAN, next : Int]]
    BY <1>6, <2>1 DEF PauseLoad
  <2>3. confirmed' \in [Sources -> BOOLEAN]
    <3>1. \A q \in Sources : confirmed'[q] \in BOOLEAN
      BY <1>6 DEF PauseLoad
    <3> QED
      BY <1>6, <3>1 DEF PauseLoad
  <2> QED
    BY <1>6, <2>2, <2>3 DEF PauseLoad
<1>7. ASSUME NEW s \in Sources, PauseSave(s) \/ ManualTrigger(s)
      PROVE  TypeOK'
  <2>1. CASE ManualTrigger(s)
    BY <2>1 DEF ManualTrigger
  <2>2. CASE PauseSave(s)
    <3>1. command[s].pause \in BOOLEAN /\ command[s].next \in Int
      OBVIOUS
    <3>2. NoCommand \in [pause : BOOLEAN, next : Int]
      BY DEF NoTime
    <3>3. command' \in [Sources -> [pause : BOOLEAN, next : Int]]
      BY <2>2, <3>2 DEF PauseSave
    <3>4. /\ next' \in [Sources -> Int] /\ paused' \in [Sources -> BOOLEAN]
          /\ confirmed' \in [Sources -> BOOLEAN]
      BY <2>2, <3>1 DEF PauseSave
    <3> QED
      BY <2>2, <3>3, <3>4 DEF PauseSave
  <2> QED
    BY <1>7, <2>1, <2>2
<1>8. CASE Crash \/ Tick \/ UNCHANGED vars
  BY <1>8 DEF Crash, Tick, vars
<1> QED
  BY <1>1, <1>2, <1>3, <1>4, <1>5, <1>6, <1>7, <1>8 DEF Next, Service, Operator

\* Every reachable state is well typed.
THEOREM SchedulerTypeCorrect == Spec => []TypeOK
<1>1. Init => TypeOK
  BY DEF Init, TypeOK, NoTime, NoCommand
<1> QED
  BY <1>1, TypeStep, PTL DEF Spec

-----------------------------------------------------------------------------
(* What ticks and pauses may rely on, however they overlap.                *)

\* The stored next run lies a full interval after the last dispatch, unless a
\* pause() call has put back an older one.
NextFollowsLast ==
  \A s \in Sources : last[s] # NoTime =>
    s \in known /\ (s \notin rewound => last[s] + interval[s] <= next[s])

\* Only registered sources have operators at work on their schedule.
CommandIsKnown ==
  \A s \in Sources : command[s] # NoCommand => s \in known

\* A tick about to save was due, and no pause has been confirmed meanwhile but
\* one that wrote in between.
SaveIsJustified ==
  at = "save" =>
    /\ source \in known
    /\ last[source] # NoTime /\ source \notin rewound =>
         last[source] + interval[source] <= current
    /\ source \notin raced => ~confirmed[source]

\* A tick about to dispatch has stored the run after it.
DispatchIsStored ==
  at = "dispatch" =>
    source \in known /\ (source \notin rewound => current + interval[source] <= next[source])

ConfirmedIsPaused ==
  \A s \in Sources : confirmed[s] => s \in known /\ (s \notin raced => paused[s])

ScheduleInv == /\ NextFollowsLast /\ CommandIsKnown /\ SaveIsJustified
               /\ DispatchIsStored /\ ConfirmedIsPaused

\* While the service cycles, every source it has not visited is registered.
CycleIsRegistered ==
  /\ at \in {"cycle", "save", "dispatch", "sleep"} => known = Sources
  /\ at = "register" => Sources \ todo \subseteq known

\* Nothing was dispatched after the time a pass works with.
LastIsPast == current <= now /\ \A s \in Sources : last[s] <= current

\* The time of a pass is read from a clock that does not go back.
LEMMA PastStep == ASSUME TypeOK, LastIsPast, [Next]_vars PROVE LastIsPast'
<1> USE DEF LastIsPast, serviceVars
<1>1. CASE Start \/ BeginCycle \/ EndCycle
  <2>1. UNCHANGED <<now, last>> /\ (current' = current \/ current' = now)
    BY <1>1 DEF Start, BeginCycle, EndCycle
  <2> QED
    BY <2>1 DEF TypeOK
<1>2. CASE TickDispatch \/ TickDispatchFails
  <2>1. /\ UNCHANGED <<now, current>>
        /\ \A s \in Sources : last'[s] = last[s] \/ last'[s] = current
    BY <1>2 DEF TickDispatch, TickDispatchFails, TypeOK
  <2> QED
    BY <2>1 DEF TypeOK
<1>3. CASE TickSave \/ TickSaveFails \/ Crash \/ UNCHANGED vars
  BY <1>3 DEF TickSave, TickSaveFails, Crash, vars
<1>4. ASSUME NEW s \in Sources,
             Register(s) \/ RegisterFails(s) \/ TickLoad(s) \/ TickLoadFails(s)
      PROVE  LastIsPast'
  BY <1>4 DEF Register, RegisterFails, TickLoad, TickLoadFails
<1>5. CASE Operator
  BY <1>5 DEF Operator, PauseLoad, PauseSave, ManualTrigger
<1>6. CASE Tick
  BY <1>6 DEF Tick, TypeOK
<1> QED
  BY <1>1, <1>2, <1>3, <1>4, <1>5, <1>6 DEF Next, Service

\* A source is registered before it is visited, and is never forgotten.
LEMMA RegisteredStep ==
  ASSUME TypeOK, CycleIsRegistered, [Next]_vars PROVE CycleIsRegistered'
<1> USE DEF TypeOK, CycleIsRegistered, scheduleVars, serviceVars, operatorVars, Goto
<1>1. CASE Start \/ BeginCycle \/ EndCycle
  BY <1>1 DEF Start, BeginCycle, EndCycle
<1>2. CASE TickSave \/ TickSaveFails \/ TickDispatch \/ TickDispatchFails
  BY <1>2 DEF TickSave, TickSaveFails, TickDispatch, TickDispatchFails, WriteNext
<1>3. ASSUME NEW s \in Sources,
             Register(s) \/ RegisterFails(s) \/ TickLoad(s) \/ TickLoadFails(s)
      PROVE  CycleIsRegistered'
  BY <1>3 DEF Register, RegisterFails, TickLoad, TickLoadFails
<1>4. CASE Operator
  BY <1>4 DEF Operator, PauseLoad, PauseSave, ManualTrigger
<1>5. CASE Crash \/ Tick \/ UNCHANGED vars
  BY <1>5 DEF Crash, Tick, vars
<1> QED
  BY <1>1, <1>2, <1>3, <1>4, <1>5 DEF Next, Service

\* The steps of the service that write no schedule, and the clock.
LEMMA QuietStep ==
  ASSUME TypeOK, ScheduleInv, UNCHANGED <<scheduleVars, last, operatorVars, rewound>>,
         at' = "save" => SaveIsJustified', at' # "dispatch"
  PROVE  ScheduleInv'
BY DEF TypeOK, ScheduleInv, NextFollowsLast, CommandIsKnown, SaveIsJustified,
   DispatchIsStored, ConfirmedIsPaused, scheduleVars, operatorVars

\* The service keeps the invariant.
LEMMA ServiceStep ==
  ASSUME TypeOK, CycleIsRegistered, LastIsPast, ScheduleInv, Service
  PROVE  ScheduleInv'
<1>1. CASE Start \/ BeginCycle \/ EndCycle
  BY <1>1, QuietStep DEF Start, BeginCycle, EndCycle, Goto
<1>2. ASSUME NEW s \in Sources, RegisterFails(s) \/ TickLoadFails(s)
      PROVE  ScheduleInv'
  BY <1>2, QuietStep DEF RegisterFails, TickLoadFails, Goto
<1>3. ASSUME NEW s \in Sources, TickLoad(s)
      PROVE  ScheduleInv'
  <2>1. s \in known
    BY <1>3 DEF TickLoad, CycleIsRegistered
  <2>2. ASSUME at' = "save"
        PROVE  SaveIsJustified'
    <3>1. source' = s /\ ~paused[s] /\ current >= next[s]
          /\ UNCHANGED <<current, scheduleVars, last, operatorVars, rewound>>
      BY <1>3, <2>2 DEF TickLoad, Due
    <3>2. last[s] # NoTime /\ s \notin rewound => last[s] + interval[s] <= current
      <4>1. last[s] \in Int /\ interval[s] \in Nat /\ current \in Nat /\ next[s] \in Int
        BY SchedulerAssumption DEF TypeOK
      <4> QED
        BY <3>1, <4>1 DEF ScheduleInv, NextFollowsLast
    <3>3. s \notin raced => ~confirmed[s]
      BY <3>1 DEF ScheduleInv, ConfirmedIsPaused
    <3> QED
      BY <2>1, <3>1, <3>2, <3>3 DEF SaveIsJustified, scheduleVars, operatorVars
  <2> QED
    BY <1>3, <2>2, QuietStep DEF TickLoad
<1>4. ASSUME NEW s \in Sources, Register(s)
      PROVE  ScheduleInv'
  <2>1. CASE s \in known
    BY <1>4, <2>1, QuietStep DEF Register
  <2>2. CASE s \notin known
    <3>1. last[s] = NoTime /\ command[s] = NoCommand /\ ~confirmed[s]
      BY <2>2 DEF ScheduleInv, NextFollowsLast, CommandIsKnown, ConfirmedIsPaused
    <3>2. /\ \A q \in Sources \ {s} : /\ next'[q] = next[q] /\ paused'[q] = paused[q]
                                      /\ interval'[q] = interval[q]
          /\ known' = known \cup {s}
          /\ UNCHANGED <<at, last, operatorVars, rewound>> /\ at = "register"
      BY <1>4, <2>2 DEF Register, TypeOK
    <3> QED
      BY <3>1, <3>2 DEF ScheduleInv, NextFollowsLast, CommandIsKnown,
         SaveIsJustified, DispatchIsStored, ConfirmedIsPaused, operatorVars
  <2> QED
    BY <2>1, <2>2
<1>5. ASSUME at = "save", at' \in {"dispatch", "cycle"}, WriteNext,
             rewound' = rewound \ {source},
             UNCHANGED <<current, source, last, operatorVars>>
      PROVE  ScheduleInv'
  <2>1. source \in known /\ (source \notin raced => ~confirmed[source])
    BY <1>5 DEF ScheduleInv, SaveIsJustified
  <2>2. source \in Sources /\ interval[source] \in Nat /\ current \in Nat
        /\ next \in [Sources -> Int] /\ last \in [Sources -> Int]
        /\ paused \in [Sources -> BOOLEAN]
    BY SchedulerAssumption DEF TypeOK
  <2>3. /\ next'[source] = current + interval[source]
        /\ \A q \in Sources \ {source} : next'[q] = next[q] /\ paused'[q] = paused[q]
        /\ interval' = interval /\ known' = known
    BY <1>5, <2>2 DEF WriteNext
  <2>5. NextFollowsLast'
    <3> SUFFICES ASSUME NEW q \in Sources, last[q] # NoTime
                 PROVE  q \in known /\ (q \notin rewound' => last[q] + interval[q] <= next'[q])
      BY <1>5, <2>3 DEF NextFollowsLast
    <3>1. CASE q = source
      <4>1. last[q] <= current
        BY <2>2, <3>1 DEF LastIsPast
      <4> QED
        BY <2>1, <2>2, <2>3, <4>1, <3>1
    <3>2. CASE q # source
      BY <1>5, <2>3, <3>2 DEF ScheduleInv, NextFollowsLast
    <3> QED
      BY <3>1, <3>2
  <2>6. CommandIsKnown' /\ ConfirmedIsPaused'
    BY <1>5, <2>1, <2>3 DEF ScheduleInv, CommandIsKnown, ConfirmedIsPaused, operatorVars
  <2>7. SaveIsJustified' /\ DispatchIsStored'
    BY <1>5, <2>1, <2>2, <2>3 DEF SaveIsJustified, DispatchIsStored
  <2> QED
    BY <2>5, <2>6, <2>7 DEF ScheduleInv
<1>6. CASE TickSave \/ TickSaveFails
  <2>1. CASE WriteNext /\ rewound' = rewound \ {source}
    BY <1>5, <1>6, <2>1 DEF TickSave, TickSaveFails, Goto
  <2>2. CASE UNCHANGED <<scheduleVars, rewound>> /\ TickSaveFails
    BY <2>2, QuietStep DEF TickSaveFails, Goto
  <2> QED
    BY <1>6, <2>1, <2>2 DEF TickSave, TickSaveFails
<1>7. CASE TickDispatch \/ TickDispatchFails
  <2>1. /\ at = "dispatch" /\ at' = "cycle"
        /\ UNCHANGED <<scheduleVars, operatorVars, rewound>>
        /\ \A q \in Sources : \/ last'[q] = last[q]
                              \/ q = source /\ last'[q] = current
    BY <1>7 DEF TickDispatch, TickDispatchFails, Goto, TypeOK
  <2>2. /\ source \in known
        /\ source \notin rewound => current + interval[source] <= next[source]
    BY <2>1 DEF ScheduleInv, DispatchIsStored
  <2>3. NextFollowsLast'
    BY <2>1, <2>2 DEF ScheduleInv, NextFollowsLast, scheduleVars
  <2> QED
    BY <2>1, <2>3 DEF ScheduleInv, CommandIsKnown, SaveIsJustified,
       DispatchIsStored, ConfirmedIsPaused, scheduleVars, operatorVars
<1> QED
  BY <1>1, <1>2, <1>3, <1>4, <1>6, <1>7 DEF Service

\* So do the operators, the clock and a crash.
LEMMA OutsideStep ==
  ASSUME TypeOK, ScheduleInv, Operator \/ Crash \/ Tick \/ UNCHANGED vars
  PROVE  ScheduleInv'
<1> USE DEF TypeOK, NextFollowsLast, CommandIsKnown, SaveIsJustified,
    DispatchIsStored, ConfirmedIsPaused, scheduleVars, serviceVars, operatorVars
<1>1. CASE Tick \/ UNCHANGED vars
  BY <1>1 DEF Tick, vars, ScheduleInv
<1>2. CASE Crash
  BY <1>2 DEF Crash, ScheduleInv
<1>3. ASSUME NEW s \in Sources, NEW value \in BOOLEAN, PauseLoad(s, value)
      PROVE  ScheduleInv'
  BY <1>3 DEF PauseLoad, ScheduleInv
<1>4. ASSUME NEW s \in Sources, ManualTrigger(s)
      PROVE  ScheduleInv'
  BY <1>4 DEF ManualTrigger, ScheduleInv
<1>5. ASSUME NEW s \in Sources, PauseSave(s)
      PROVE  ScheduleInv'
  <2> DEFINE n == command[s].next
  <2>1. s \in known /\ n \in Int /\ command[s] # NoCommand
    BY <1>5 DEF PauseSave, ScheduleInv
  <2>2. /\ \A q \in Sources \ {s} : next'[q] = next[q] /\ paused'[q] = paused[q]
                                   /\ confirmed'[q] = confirmed[q]
                                   /\ (q \in raced' <=> q \in raced)
                                   /\ (q \in rewound' <=> q \in rewound)
                                   /\ command'[q] = command[q]
        /\ next'[s] = n /\ paused'[s] = confirmed'[s] /\ command'[s] = NoCommand
        /\ UNCHANGED <<now, known, interval, serviceVars, commands, crashes>>
    BY <1>5 DEF PauseSave
  <2>3. at = "save" /\ source = s => s \in raced'
    BY <1>5 DEF PauseSave
  <2>4. s \notin rewound' => s \notin rewound /\ next[s] <= n
    BY <1>5, <2>1 DEF PauseSave
  <2>5. NextFollowsLast'
    <3> SUFFICES ASSUME NEW q \in Sources, last[q] # NoTime
                 PROVE  q \in known /\ (q \notin rewound' => last[q] + interval[q] <= next'[q])
      BY <2>2
    <3>1. last[q] \in Int /\ interval[q] \in Nat /\ next[q] \in Int
      BY SchedulerAssumption
    <3>2. q \in known /\ (q \notin rewound => last[q] + interval[q] <= next[q])
      BY DEF ScheduleInv
    <3>3. CASE q = s
      BY <2>1, <2>2, <2>4, <3>1, <3>2, <3>3
    <3>4. CASE q # s
      BY <2>2, <3>2, <3>4
    <3> QED
      BY <3>3, <3>4
  <2>6. DispatchIsStored'
    <3> SUFFICES ASSUME at = "dispatch"
                 PROVE  /\ source \in known
                        /\ source \notin rewound' => current + interval[source] <= next'[source]
      BY <2>2
    <3>1. current \in Nat /\ interval[source] \in Nat /\ next[source] \in Int
      BY SchedulerAssumption
    <3>2. /\ source \in known
          /\ source \notin rewound => current + interval[source] <= next[source]
      BY DEF ScheduleInv
    <3>3. CASE source = s
      BY <2>1, <2>2, <2>4, <3>1, <3>2, <3>3
    <3>4. CASE source # s
      BY <2>2, <3>2, <3>4
    <3> QED
      BY <3>3, <3>4
  <2>7. CommandIsKnown' /\ ConfirmedIsPaused'
    BY <2>1, <2>2 DEF ScheduleInv
  <2>8. SaveIsJustified'
    BY <2>2, <2>3, <2>4 DEF ScheduleInv
  <2> QED
    BY <2>5, <2>6, <2>7, <2>8 DEF ScheduleInv
<1> QED
  BY <1>1, <1>2, <1>3, <1>4, <1>5 DEF Operator

\* The invariant of every reachable state.
LEMMA ScheduleInvariant == Spec => []ScheduleInv
<1>1. Init => ScheduleInv /\ CycleIsRegistered /\ LastIsPast
  BY DEF Init, ScheduleInv, NextFollowsLast, CommandIsKnown, SaveIsJustified,
     DispatchIsStored, ConfirmedIsPaused, CycleIsRegistered, LastIsPast, NoTime
<1>2. TypeOK /\ CycleIsRegistered /\ LastIsPast /\ ScheduleInv /\ [Next]_vars
        => ScheduleInv' /\ CycleIsRegistered' /\ LastIsPast'
  BY RegisteredStep, PastStep, ServiceStep, OutsideStep DEF Next
<1> QED
  BY <1>1, <1>2, SchedulerTypeCorrect, PTL DEF Spec

\* Scheduled dispatches of a source are a full interval apart, whatever
\* crashes, fails or restarts (scheduler.py:92-98: stored, then dispatched) and
\* however pauses overlap ticks, unless one has put back an older next run.
THEOREM DispatchesAreSpaced == Spec => []SpacedDispatches
<1>1. TypeOK /\ ScheduleInv => SpacedDispatches
  <2> SUFFICES ASSUME TypeOK, ScheduleInv, at = "save", last[source] # NoTime,
                      source \notin rewound
               PROVE  current >= last[source] + interval[source]
    BY DEF SpacedDispatches
  <2>1. last[source] \in Int /\ interval[source] \in Nat /\ current \in Nat
    BY SchedulerAssumption DEF TypeOK
  <2> QED
    BY <2>1 DEF ScheduleInv, SaveIsJustified
<1> QED
  BY <1>1, ScheduleInvariant, SchedulerTypeCorrect, PTL

\* A pause that did not return in the middle of a tick holds until it is lifted
\* (scheduler.py:74-77, 85-99).
THEOREM PauseHolds == Spec => []UndisturbedPauseIsKept
<1>1. ScheduleInv => UndisturbedPauseIsKept
  BY DEF ScheduleInv, ConfirmedIsPaused, UndisturbedPauseIsKept
<1> QED
  BY <1>1, ScheduleInvariant, PTL
=============================================================================
