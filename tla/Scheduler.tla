------------------------------ MODULE Scheduler ------------------------------
(***************************************************************************)
(* The scheduler service: SchedulerService (scheduler.py) driven by main   *)
(* and run_cycle (scheduler_service.py), and the operators that call pause *)
(* and manual_trigger.  The schedule of a source is one Redis string that  *)
(* everybody reads, changes and writes back: the reads and writes are the  *)
(* steps here.  The stored interval is only ever written back as it was    *)
(* read, so it is kept out of what a step remembers.                       *)
(***************************************************************************)
EXTENDS Integers, FiniteSets

CONSTANTS
  Sources,        \* enabled sources of the configuration
  Intervals,      \* interval_seconds a configuration may give a source
  Failing,        \* sources whose Redis or broker calls may raise
  MaxTime,        \* bound on the clock
  MaxCrashes,     \* bound on deaths of the service
  MaxCommands     \* bound on operator commands

ASSUME SchedulerAssumption ==
  /\ Intervals \subseteq Nat \ {0}
  /\ Failing \subseteq Sources
  /\ MaxTime \in Nat /\ MaxCrashes \in Nat /\ MaxCommands \in Nat

NoTime == -1                                  \* before the first dispatch
NoCommand == [pause |-> FALSE, next |-> NoTime] \* no pause() call in progress

VARIABLES
  now,       \* beijing_now()
  known,     \* Redis: sources that have a schedule
  next,      \* Redis: "next"
  paused,    \* Redis: "paused"
  interval,  \* Redis: "interval"
  at,        \* control point of the service
  current,   \* the time one registration pass or cycle works with
  todo,      \* sources still to visit in this pass
  source,    \* the source whose tick was found due
  last,      \* time of the last scheduled dispatch of a source
  command,   \* pause() call in progress per source: what it will write
  confirmed, \* the last pause() call that returned for this source set it
  raced,     \* history: that call wrote while a tick was about to save
  rewound,   \* history: pause() put back an older next run, not yet replaced
  crashes, commands

scheduleVars == <<known, next, paused, interval>>
serviceVars  == <<at, current, todo, source, last>>
operatorVars == <<command, confirmed, raced, commands>>
vars == <<now, scheduleVars, serviceVars, operatorVars, rewound, crashes>>

Init ==
  /\ now = 0
  /\ known = {}
  /\ next = [s \in Sources |-> NoTime]
  /\ paused = [s \in Sources |-> FALSE]
  /\ interval \in [Sources -> Intervals]
  /\ at = "down" /\ current = 0 /\ todo = {}
  /\ source \in Sources
  /\ last = [s \in Sources |-> NoTime]
  /\ command = [s \in Sources |-> NoCommand]
  /\ confirmed = [s \in Sources |-> FALSE]
  /\ raced = {} /\ rewound = {}
  /\ crashes = 0 /\ commands = 0

\* should_dispatch
Due(s, time) == ~paused[s] /\ time >= next[s]

Goto(from, to) == at = from /\ at' = to

-----------------------------------------------------------------------------
(* Faulty variants of definitions below: mistakes the properties must find. *)

\* The next run is counted from the previous one.
WriteNextFromPlan ==
  /\ next' = [next EXCEPT ![source] = @ + interval[source]]
  /\ paused' = [paused EXCEPT ![source] = FALSE]
  /\ UNCHANGED <<known, interval>>

\* Two fields of the schedule are swapped.
WriteSwapped ==
  /\ interval' = [interval EXCEPT ![source] = current + interval[source]]
  /\ next' = [next EXCEPT ![source] = interval[source]]
  /\ paused' = [paused EXCEPT ![source] = FALSE]
  /\ known' = known

\* Every start registers every source afresh.
RegisterAlways(s) ==
  /\ at = "register" /\ s \in todo
  /\ todo' = todo \ {s}
  /\ known' = known \cup {s}
  /\ next' = [next EXCEPT ![s] = current]
  /\ paused' = [paused EXCEPT ![s] = FALSE]
  /\ \E i \in Intervals : interval' = [interval EXCEPT ![s] = i]
  /\ UNCHANGED <<now, at, current, source, last, operatorVars, rewound, crashes>>

\* The failure of one source ends the service.
TickLoadFailsAll(s) ==
  /\ s \in todo \cap Failing
  /\ Goto("cycle", "down")
  /\ todo' = {}
  /\ UNCHANGED <<now, scheduleVars, current, source, last, operatorVars, rewound, crashes>>

-----------------------------------------------------------------------------
(* main: register what Redis does not know, then cycle for ever.           *)

Start ==
  /\ Goto("down", "register")
  /\ current' = now /\ todo' = Sources
  /\ UNCHANGED <<now, scheduleVars, source, last, operatorVars, rewound, crashes>>

\* register_if_missing: an existing schedule is kept, even when the
\* configured interval changed.
Register(s) ==
  /\ at = "register" /\ s \in todo
  /\ todo' = todo \ {s}
  /\ IF s \in known THEN UNCHANGED scheduleVars
       ELSE /\ known' = known \cup {s}
            /\ next' = [next EXCEPT ![s] = current]
            /\ paused' = [paused EXCEPT ![s] = FALSE]
            /\ \E i \in Intervals : interval' = [interval EXCEPT ![s] = i]
  /\ UNCHANGED <<now, at, current, source, last, operatorVars, rewound, crashes>>

\* An exception of register_if_missing ends main.
RegisterFails(s) ==
  /\ s \in todo \cap Failing
  /\ Goto("register", "down")
  /\ todo' = {}
  /\ UNCHANGED <<now, scheduleVars, current, source, last, operatorVars, rewound, crashes>>

BeginCycle ==
  /\ \/ todo = {} /\ Goto("register", "cycle")
     \/ Goto("sleep", "cycle")
  /\ current' = now /\ todo' = Sources
  /\ UNCHANGED <<now, scheduleVars, source, last, operatorVars, rewound, crashes>>

EndCycle ==
  /\ todo = {}
  /\ Goto("cycle", "sleep")
  /\ UNCHANGED <<now, scheduleVars, current, todo, source, last, operatorVars, rewound, crashes>>

-----------------------------------------------------------------------------
(* tick: load, decide, save the next run, dispatch.                        *)

TickLoad(s) ==
  /\ at = "cycle" /\ s \in todo
  /\ todo' = todo \ {s}
  /\ IF Due(s, current) THEN at' = "save" /\ source' = s
                        ELSE UNCHANGED <<at, source>>
  /\ UNCHANGED <<now, scheduleVars, current, last, operatorVars, rewound, crashes>>

\* run_cycle reports the failure of one source and goes on to the next.
TickLoadFails(s) ==
  /\ at = "cycle" /\ s \in todo \cap Failing
  /\ todo' = todo \ {s}
  /\ UNCHANGED <<now, scheduleVars, at, current, source, last, operatorVars, rewound, crashes>>

\* The whole schedule is written back as it was loaded, not paused, with the
\* next run counted from this cycle's time.
WriteNext ==
  /\ next' = [next EXCEPT ![source] = current + interval[source]]
  /\ paused' = [paused EXCEPT ![source] = FALSE]
  /\ UNCHANGED <<known, interval>>

TickSave ==
  /\ Goto("save", "dispatch")
  /\ WriteNext
  /\ rewound' = rewound \ {source}
  /\ UNCHANGED <<now, current, todo, source, last, operatorVars, crashes>>

TickSaveFails ==
  /\ source \in Failing
  /\ Goto("save", "cycle")
  /\ \/ WriteNext /\ rewound' = rewound \ {source}
     \/ UNCHANGED <<scheduleVars, rewound>>
  /\ UNCHANGED <<now, current, todo, source, last, operatorVars, crashes>>

TickDispatch ==
  /\ Goto("dispatch", "cycle")
  /\ last' = [last EXCEPT ![source] = current]
  /\ UNCHANGED <<now, scheduleVars, current, todo, source, operatorVars, rewound, crashes>>

\* delay() raised; the broker may hold the message all the same.
TickDispatchFails ==
  /\ source \in Failing
  /\ Goto("dispatch", "cycle")
  /\ last' = [last EXCEPT ![source] = current] \/ UNCHANGED last
  /\ UNCHANGED <<now, scheduleVars, current, todo, source, operatorVars, rewound, crashes>>

Crash ==
  /\ at # "down" /\ crashes < MaxCrashes
  /\ at' = "down" /\ todo' = {}
  /\ crashes' = crashes + 1
  /\ UNCHANGED <<now, scheduleVars, current, source, last, operatorVars, rewound>>

-----------------------------------------------------------------------------
(* Operators.                                                              *)

\* pause(source_id, value) reads the schedule ...
PauseLoad(s, value) ==
  /\ s \in known /\ command[s] = NoCommand /\ commands < MaxCommands
  /\ commands' = commands + 1
  /\ command' = [command EXCEPT ![s] = [pause |-> value, next |-> next[s]]]
  /\ confirmed' = [confirmed EXCEPT ![s] = @ /\ value]
  /\ UNCHANGED <<now, scheduleVars, serviceVars, raced, rewound, crashes>>

\* ... and writes it back with the flag changed.
PauseSave(s) ==
  /\ command[s] # NoCommand
  /\ next' = [next EXCEPT ![s] = command[s].next]
  /\ paused' = [paused EXCEPT ![s] = command[s].pause]
  /\ confirmed' = [confirmed EXCEPT ![s] = command[s].pause]
  /\ command' = [command EXCEPT ![s] = NoCommand]
  /\ raced' = IF at = "save" /\ source = s THEN raced \cup {s} ELSE raced \ {s}
  /\ rewound' = IF command[s].next < next[s] THEN rewound \cup {s} ELSE rewound
  /\ UNCHANGED <<now, known, interval, serviceVars, commands, crashes>>

\* manual_trigger sends a task of its own and leaves the schedule alone.
ManualTrigger(s) ==
  /\ s \in known /\ commands < MaxCommands
  /\ commands' = commands + 1
  /\ UNCHANGED <<now, scheduleVars, serviceVars, command, confirmed, raced, rewound, crashes>>

Tick ==
  /\ now < MaxTime
  /\ now' = now + 1
  /\ UNCHANGED <<scheduleVars, serviceVars, operatorVars, rewound, crashes>>

-----------------------------------------------------------------------------
Service ==
  \/ Start \/ BeginCycle \/ EndCycle
  \/ TickSave \/ TickSaveFails \/ TickDispatch \/ TickDispatchFails
  \/ \E s \in Sources : \/ Register(s) \/ RegisterFails(s)
                        \/ TickLoad(s) \/ TickLoadFails(s)

Operator ==
  \E s \in Sources : \/ \E value \in BOOLEAN : PauseLoad(s, value)
                     \/ PauseSave(s) \/ ManualTrigger(s)

Next == Service \/ Operator \/ Crash \/ Tick

Spec == Init /\ [][Next]_vars

\* The container is restarted, its loop runs, a pause() call completes and
\* time passes; nobody has to issue commands.  A registration that fails for
\* ever keeps the service down, so the start of a pass must get through.
FairSpec ==
  /\ Spec
  /\ WF_vars(Service) /\ WF_vars(Tick)
  /\ \A s \in Sources : WF_vars(PauseSave(s)) /\ SF_vars(Register(s))

-----------------------------------------------------------------------------
TypeOK ==
  /\ now \in Nat /\ current \in Nat
  /\ known \subseteq Sources
  /\ next \in [Sources -> Int]
  /\ paused \in [Sources -> BOOLEAN]
  /\ interval \in [Sources -> Intervals]
  /\ at \in {"down", "register", "cycle", "save", "dispatch", "sleep"}
  /\ todo \subseteq Sources /\ source \in Sources
  /\ last \in [Sources -> Int]
  /\ command \in [Sources -> [pause : BOOLEAN, next : Int]]
  /\ confirmed \in [Sources -> BOOLEAN]
  /\ raced \subseteq Sources /\ rewound \subseteq Sources
  /\ crashes \in Nat /\ commands \in Nat

\* A source is found due a full interval after its last dispatch at the
\* earliest, through crashes, restarts, long outages and failed saves: the next
\* run is stored before the task is sent, so a restart catches up with one run,
\* not many.  The only way to a shorter distance is a pause() call that puts
\* back the next run it read before a tick; one save of the service ends that.
SpacedDispatches ==
  at = "save" /\ last[source] # NoTime /\ source \notin rewound =>
    current >= last[source] + interval[source]

\* A pause that did not return between the load and the save of a tick stays
\* in force until somebody asks to lift it, whatever ticks, crashes and
\* registrations come later.
UndisturbedPauseIsKept ==
  \A s \in Sources \ raced : confirmed[s] => paused[s]

\* A pause that was confirmed to the operator stays in force until somebody
\* asks to lift it: no tick writes an older, unpaused schedule over it.
PauseIsKept == \A s \in Sources : confirmed[s] => paused[s]

\* A due source gets its tick, whatever happens to the others: it is paused
\* or its next run moves into the future.
DueSourceIsServed ==
  \A s \in Sources \ Failing :
    (s \in known /\ Due(s, now)) ~> (paused[s] \/ next[s] > now)
=============================================================================
