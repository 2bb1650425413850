-------------------------- MODULE CFRunLoopTimers --------------------------
(***************************************************************************)
(* The timers of a run loop (CF-1153.18/CFRunLoop.c): each mode keeps its  *)
(* timers in an array sorted by fire date and one alarm, a mach or         *)
(* dispatch timer, for the first of them; a timer may be in several modes. *)
(* Runs are those of CFRunLoop, of which only the part that waits for and  *)
(* handles the alarm of the mode is kept.                                  *)
(*                                                                         *)
(* The run loop's lock is held from the moment an alarm is received until  *)
(* its timers are served, but for their callouts; everything another       *)
(* thread does under that lock is one action.                              *)
(***************************************************************************)
EXTENDS Naturals, FiniteSets, Sequences, SequencesExt

CONSTANTS
    Modes, Timers,
    Interval,       \* Interval[t]: 0 for a timer that fires once
    Tolerance,      \* Tolerance[t]: how late it may fire
    InModes,        \* InModes[t]: the modes it was added to
    FireDates,      \* FireDates[t]: its first fire date
    Clients,        \* threads that call into the run loop, callouts included
    Calls,          \* the calls they make
    Delays,         \* from now to the dates they set
    RunModes,       \* the modes of runs outside callouts
    Early,          \* how much too early an alarm may go off
    Never,          \* UINT64_MAX
    MaxDepth,       \* bound: runs inside runs
    MaxTime         \* bound of the clock

none == "none"

ASSUME TimersAssumption ==
    /\ IsFiniteSet(Timers) /\ none \notin Timers
    /\ Interval \in [Timers -> Nat] /\ Tolerance \in [Timers -> Nat]
    /\ InModes \in [Timers -> SUBSET Modes] /\ FireDates \in [Timers -> Nat]
    /\ Calls \subseteq {"setNextFireDate", "add", "remove", "invalidate"}
    /\ Delays \subseteq Nat /\ RunModes \subseteq Modes
    /\ Early \in Nat /\ Never \in Nat /\ MaxDepth \in Nat /\ MaxTime \in Nat

VARIABLES
    now,            \* mach_absolute_time
    runs,           \* runs of the loop, innermost last
    timers,         \* timers[m]: the _timers array of mode m
    alarm,          \* alarm[m]: the deadlines last armed for, and the alarm
    rang,           \* modes with a message on their timer port
    rlModes,        \* rlModes[t]: the modes timer t believes to be in
    fireTSR,        \* fireTSR[t]: the date of timer t
    valid, firing,  \* timers that are valid, and that are being called
    doing,          \* doing[c]: what client c has yet to do of its call
    stale,          \* history: modes whose array a call has missed
    missed          \* history: these, and modes whose alarm passes a timer over

vars == <<now, runs, timers, alarm, rang, rlModes, fireTSR, valid, firing,
          doing, stale, missed>>
history == <<stale, missed>>

\* No date reaches UINT64_MAX.
ASSUME DatesAssumption ==
    \A t \in Timers :
        /\ FireDates[t] + MaxTime + Interval[t] + Tolerance[t] < Never
        /\ \A k \in Delays : MaxTime + k + Tolerance[t] < Never

Top == runs[Len(runs)]
SetTop(f) == runs' = [runs EXCEPT ![Len(runs)] = f]
At(pc) == runs # <<>> /\ Top.pc = pc
LockFree == runs # <<>> => Top.pc # "DoTimers"

-----------------------------------------------------------------------------
(* The sorted array and the alarm of a mode.                               *)

\* Mutant: the last timer of the array is never compared.
InsertionIndexShort(a, d, date) ==
    Cardinality({i \in 1..(Len(a) - 1) : date[a[i]] <= d})

\* Where a loop is after n turns of which each takes a state s to turn[s].
Iterate(turn, s, n) ==
    LET after[k \in Nat] == IF k = 0 THEN s ELSE turn[after[k - 1]] IN after[n]

\* 1 << n
Shifted(n) == Iterate([p \in Nat |-> 2 * p], 1, n)

\* The number of bits of n.
flsl(n) == CHOOSE k \in 0..n : Shifted(k) > n /\ \A j \in 0..(k - 1) : Shifted(j) <= n

\* __CFRunLoopInsertionIndexInTimerArray: a binary search whose step add is
\* halved down to 0; idx is the last index tested with a date not after d.  In
\* a long array the last and the first date are looked at before.
InsertionIndex(a, d, date) ==
    LET cnt == Len(a)
        LEQ(i) == i < cnt /\ date[a[i + 1]] <= d
        turn == [s \in Nat \X Nat |->
                    LET add == s[1] \div 2  testIdx == s[2] + add IN
                    <<add, IF LEQ(testIdx) THEN testIdx ELSE s[2]>>]
        idx == Iterate(turn, <<Shifted(flsl(cnt)) * 2, 0>>, flsl(cnt) + 2)[2]
    IN  IF cnt = 0 THEN 0
        ELSE IF 256 < cnt /\ date[a[cnt]] <= d THEN cnt
        ELSE IF 256 < cnt /\ d < date[a[1]] THEN 0
        ELSE IF LEQ(idx) THEN idx + 1 ELSE idx

Inserted(a, t, date) == InsertAt(a, InsertionIndex(a, date[t], date) + 1, t)

\* The indices that __CFArmNextTimerInMode looks at: not of timers that are
\* being called, nor from the first date on that is after the earliest date
\* plus tolerance so far.
LookedAt(a, date, F) ==
    {i \in DOMAIN a :
        /\ a[i] \notin F
        /\ \A j \in 1..i, k \in 1..i : k < j /\ a[j] \notin F /\ a[k] \notin F
               => date[a[j]] <= date[a[k]] + Tolerance[a[k]]}

\* The soft deadline, the first of their dates, and the hard one, the earliest
\* of their dates plus tolerance.
Deadlines(a, date, F) ==
    LET L == LookedAt(a, date, F) IN
    [soft |-> Min({Never} \cup {date[a[i]] : i \in L}),
     hard |-> Min({Never} \cup {date[a[i]] + Tolerance[a[i]] : i \in L})]

\* __CFArmNextTimerInMode: the alarm is set when the deadlines have changed,
\* and cancelled when there are none.
ArmNextTimer(old, a, date, F) ==
    LET n == Deadlines(a, date, F) IN
    [soft |-> n.soft, hard |-> n.hard,
     at |-> IF n.soft = Never THEN Never
            ELSE IF n.soft # old.soft \/ n.hard # old.hard THEN n.soft
            ELSE old.at]

Disarmed == [soft |-> Never, hard |-> Never, at |-> Never]

\* __CFRepositionTimerInMode of timer t, already in the array, in the modes S.
Repositioned(S, t, date) ==
    [m \in Modes |-> IF m \in S /\ t \in ToSet(timers[m])
                     THEN Inserted(RemoveFirst(timers[m], t), t, date)
                     ELSE timers[m]]

\* The alarms of the modes S that hold timer t, armed anew for arrays A.
Rearmed(S, t, A, date, F) ==
    [m \in Modes |-> IF m \in S /\ t \in ToSet(timers[m])
                     THEN ArmNextTimer(alarm[m], A[m], date, F) ELSE alarm[m]]

\* CFRunLoopRemoveTimer from each mode of S.
RemoveFrom(S, t) ==
    LET A == [m \in Modes |-> IF m \in S THEN RemoveFirst(timers[m], t) ELSE timers[m]] IN
    /\ timers' = A
    /\ alarm' = Rearmed(S, t, A, fireTSR, firing)
    /\ rlModes' = [rlModes EXCEPT ![t] = @ \ {m \in S : t \in ToSet(timers[m])}]

Sorted(a, date) ==
    \A i, j \in DOMAIN a : i < j => date[a[i]] <= date[a[j]]

\* Timers were added in any order.
Init ==
    /\ now = 0 /\ runs = <<>>
    /\ timers \in [Modes -> SeqOf(Timers, Cardinality(Timers))]
    /\ \A m \in Modes : /\ IsInjective(timers[m]) /\ Sorted(timers[m], FireDates)
                        /\ ToSet(timers[m]) = {t \in Timers : m \in InModes[t]}
    /\ alarm = [m \in Modes |-> ArmNextTimer(Disarmed, timers[m], FireDates, {})]
    /\ rang = {}
    /\ rlModes = InModes /\ fireTSR = FireDates
    /\ valid = Timers /\ firing = {}
    /\ doing = [c \in Clients |-> [call |-> none]]
    /\ stale = {} /\ missed = {}

-----------------------------------------------------------------------------
(* The runs of the loop.                                                   *)

\* A run in mode m, the first one or one inside a timer's callout.
Run(m) ==
    /\ IF runs = <<>> THEN m \in RunModes
       ELSE Top.pc = "Callout" /\ Len(runs) < MaxDepth
    /\ runs' = Append(runs, [mode |-> m, pc |-> "Wait", order |-> <<>>, due |-> {},
                             call |-> none, old |-> 0, modes |-> {},
                             handled |-> FALSE])
    /\ UNCHANGED <<now, timers, alarm, rang, rlModes, fireTSR, valid, firing, doing, history>>

Return ==
    /\ At("Wait")
    /\ runs' = Front(runs)
    /\ UNCHANGED <<now, timers, alarm, rang, rlModes, fireTSR, valid, firing, doing, history>>

\* Mutant: whether the timer is being called is not looked at.
DueFiring(t) == t \in valid /\ fireTSR[t] <= now

\* A timer that may be called.
Due(t) == t \in valid \ firing /\ fireTSR[t] <= now

\* The message of the mode's alarm is received: __CFRunLoopDoTimers collects
\* the timers that are due, in the order of the array.
DoTimers ==
    /\ At("Wait") /\ Top.mode \in rang
    /\ rang' = rang \ {Top.mode}
    /\ SetTop([Top EXCEPT !.pc = "DoTimers", !.order = SelectSeq(timers[Top.mode], Due),
                          !.due = {t \in ToSet(timers[Top.mode]) : Due(t)}])
    /\ UNCHANGED <<now, timers, alarm, rlModes, fireTSR, valid, firing, doing, history>>

\* t is the first of the collected timers.
NextDue(t) ==
    \E i \in DOMAIN Top.order :
        Top.order[i] = t /\ t \in Top.due /\ \A j \in 1..(i - 1) : Top.order[j] \notin Top.due

\* Mutant: the deadlines are not forgotten.
DoTimerRemembering(t) ==
    /\ At("DoTimers") /\ NextDue(t)
    /\ IF Due(t) /\ rlModes[t] # {}
       THEN /\ firing' = firing \cup {t}
            /\ alarm' = [alarm EXCEPT ![Top.mode] =
                             ArmNextTimer(@, timers[Top.mode], fireTSR, firing')]
            /\ SetTop([Top EXCEPT !.pc = "Callout", !.due = @ \ {t}, !.call = t,
                                  !.old = fireTSR[t]])
       ELSE SetTop([Top EXCEPT !.due = @ \ {t}]) /\ UNCHANGED <<firing, alarm>>
    /\ UNCHANGED <<now, timers, rang, rlModes, fireTSR, valid, doing, history>>

\* __CFRunLoopDoTimer up to the callout of the next timer collected.  The
\* deadlines are forgotten, so that the alarm is set for a timer of the same
\* date too.
DoTimer(t) ==
    /\ At("DoTimers") /\ NextDue(t)
    /\ IF Due(t) /\ rlModes[t] # {}
       THEN /\ firing' = firing \cup {t}
            /\ alarm' = [alarm EXCEPT ![Top.mode] =
                 ArmNextTimer([@ EXCEPT !.soft = Never, !.hard = Never],
                              timers[Top.mode], fireTSR, firing')]
            /\ SetTop([Top EXCEPT !.pc = "Callout", !.due = @ \ {t}, !.call = t,
                                  !.old = fireTSR[t]])
       ELSE SetTop([Top EXCEPT !.due = @ \ {t}]) /\ UNCHANGED <<firing, alarm>>
    /\ UNCHANGED <<now, timers, rang, rlModes, fireTSR, valid, doing, history>>

\* The callout returns; a timer that does not repeat is invalidated, and the
\* modes it is in are read with that, under the timer's lock.
CalloutReturns ==
    /\ At("Callout")
    /\ IF Interval[Top.call] = 0 /\ Top.call \in valid
       THEN /\ valid' = valid \ {Top.call}
            /\ SetTop([Top EXCEPT !.pc = "Invalidate", !.modes = rlModes[Top.call]])
       ELSE UNCHANGED valid /\ SetTop([Top EXCEPT !.pc = "Returned"])
    /\ UNCHANGED <<now, timers, alarm, rang, rlModes, fireTSR, firing, doing, history>>

\* The rest of that CFRunLoopTimerInvalidate, under the run loop's lock: the
\* timer leaves those modes, not one it was added to since.
InvalidateFired ==
    /\ At("Invalidate")
    /\ RemoveFrom(Top.modes, Top.call)
    /\ SetTop([Top EXCEPT !.pc = "Returned", !.modes = {}])
    /\ UNCHANGED <<now, rang, fireTSR, valid, firing, doing, history>>

\* The dates that intervals lead to from the old one, up to the first after now.
NextFireTSR(t, old) == Min({d \in {old + k * Interval[t] : k \in 0..(now + 1)} : d > now})

\* __CFRunLoopDoTimer after the callout.  A later date set meanwhile stands,
\* otherwise the timer moves to its next date in all of its modes.
TimerDone ==
    /\ At("Returned")
    /\ LET t == Top.call  m == Top.mode IN
       /\ firing' = firing \ {t}
       /\ IF t \notin valid
          THEN UNCHANGED <<timers, alarm, fireTSR>>
          ELSE IF Top.old < fireTSR[t]
          THEN /\ alarm' = [alarm EXCEPT ![m] =
                                ArmNextTimer(@, timers[m], fireTSR, firing')]
               /\ UNCHANGED <<timers, fireTSR>>
          ELSE /\ fireTSR' = [fireTSR EXCEPT ![t] = NextFireTSR(t, Top.old)]
               /\ timers' = Repositioned(rlModes[t], t, fireTSR')
               /\ alarm' = Rearmed(rlModes[t], t, timers', fireTSR', firing')
       /\ SetTop([Top EXCEPT !.pc = "DoTimers", !.call = none, !.old = 0,
                             !.handled = TRUE])
    /\ UNCHANGED <<now, rang, rlModes, valid, doing, history>>

\* When no timer was called, the alarm is set again.
DoTimersDone ==
    /\ At("DoTimers") /\ Top.due = {}
    /\ LET m == Top.mode IN
       /\ alarm' = IF Top.handled THEN alarm
                   ELSE [alarm EXCEPT ![m] = ArmNextTimer(@, timers[m], fireTSR, firing)]
       /\ missed' = IF Top.handled \/ ToSet(timers[m]) \subseteq valid THEN missed
                    ELSE missed \cup {m}
    /\ SetTop([Top EXCEPT !.pc = "Wait", !.order = <<>>, !.handled = FALSE])
    /\ UNCHANGED <<now, timers, rang, rlModes, fireTSR, valid, firing, doing, stale>>

-----------------------------------------------------------------------------
(* Calls of other threads and of callouts.                                 *)

\* The modes of S whose alarm passes timer t over because t is being called,
\* and that are not the mode it is called in.
PassedOver(t, S) ==
    IF t \notin firing THEN {}
    ELSE S \ {runs[i].mode : i \in {i \in DOMAIN runs : runs[i].call = t}}

Idle(c) == doing[c].call = none
Now(c, d) == doing' = [doing EXCEPT ![c] = d]

\* CFRunLoopTimerSetNextFireDate: the modes are read under the timer's lock.
SetNextFireDate(c, t, d) ==
    /\ "setNextFireDate" \in Calls /\ Idle(c) /\ t \in valid
    /\ IF rlModes[t] = {}
       THEN fireTSR' = [fireTSR EXCEPT ![t] = d] /\ UNCHANGED doing
       ELSE /\ Now(c, [call |-> "set", timer |-> t, modes |-> rlModes[t], date |-> d])
            /\ UNCHANGED fireTSR
    /\ UNCHANGED <<now, runs, timers, alarm, rang, rlModes, valid, firing, history>>

\* Then the date is set and the timer moved in those modes under the run
\* loop's lock.
MoveTimer(c) ==
    /\ doing[c].call = "set" /\ LockFree
    /\ LET t == doing[c].timer  S == doing[c].modes IN
       /\ fireTSR' = [fireTSR EXCEPT ![t] = doing[c].date]
       /\ timers' = Repositioned(S, t, fireTSR')
       /\ alarm' = Rearmed(S, t, timers', fireTSR', firing)
       /\ stale' = stale \cup (rlModes[t] \ S)
       /\ missed' = missed \cup (rlModes[t] \ S) \cup PassedOver(t, S)
    /\ Now(c, [call |-> none])
    /\ UNCHANGED <<now, runs, rang, rlModes, valid, firing>>

\* CFRunLoopAddTimer looks whether the timer is valid before it locks.
AddTimer(c, t, m) ==
    /\ "add" \in Calls /\ Idle(c) /\ t \in valid
    /\ Now(c, [call |-> "add", timer |-> t, mode |-> m])
    /\ UNCHANGED <<now, runs, timers, alarm, rang, rlModes, fireTSR, valid, firing, history>>

InsertTimer(c) ==
    /\ doing[c].call = "add" /\ LockFree
    /\ LET t == doing[c].timer  m == doing[c].mode IN
       IF m \in rlModes[t] THEN UNCHANGED <<timers, alarm, rlModes, missed>>
       ELSE /\ rlModes' = [rlModes EXCEPT ![t] = @ \cup {m}]
            /\ timers' = [timers EXCEPT ![m] = Inserted(@, t, fireTSR)]
            /\ alarm' = [alarm EXCEPT ![m] =
                             ArmNextTimer(@, timers'[m], fireTSR, firing)]
            /\ missed' = missed \cup PassedOver(t, {m})
    /\ Now(c, [call |-> none])
    /\ UNCHANGED <<now, runs, rang, fireTSR, valid, firing, stale>>

RemoveTimer(c, t, m) ==
    /\ "remove" \in Calls /\ Idle(c) /\ LockFree /\ t \in ToSet(timers[m])
    /\ RemoveFrom({m}, t)
    /\ UNCHANGED <<now, runs, rang, fireTSR, valid, firing, doing, history>>

\* CFRunLoopTimerInvalidate under the timer's lock, which it releases before
\* it takes the run loop's.
Invalidate(c, t) ==
    /\ "invalidate" \in Calls /\ Idle(c) /\ t \in valid
    /\ valid' = valid \ {t}
    /\ Now(c, [call |-> "remove", timer |-> t, modes |-> rlModes[t]])
    /\ UNCHANGED <<now, runs, timers, alarm, rang, rlModes, fireTSR, firing, history>>

RemoveInvalid(c) ==
    /\ doing[c].call = "remove" /\ LockFree
    /\ RemoveFrom(doing[c].modes, doing[c].timer)
    /\ Now(c, [call |-> none])
    /\ UNCHANGED <<now, runs, rang, fireTSR, valid, firing, history>>

\* Time passes; the alarm of a mode goes off and sends its port a message.
Tick ==
    /\ now < MaxTime /\ now' = now + 1
    /\ UNCHANGED <<runs, timers, alarm, rang, rlModes, fireTSR, valid, firing, doing, history>>

Ring(m) ==
    /\ alarm[m].at <= now + Early
    /\ rang' = rang \cup {m}
    /\ alarm' = [alarm EXCEPT ![m].at = Never]
    /\ UNCHANGED <<now, runs, timers, rlModes, fireTSR, valid, firing, doing, history>>

Client(c) ==
    \/ \E t \in Timers : \/ \E k \in Delays : SetNextFireDate(c, t, now + k)
                         \/ \E m \in Modes : AddTimer(c, t, m) \/ RemoveTimer(c, t, m)
                         \/ Invalidate(c, t)
    \/ MoveTimer(c) \/ InsertTimer(c) \/ RemoveInvalid(c)

Next ==
    \/ \E m \in Modes : Run(m) \/ Ring(m)
    \/ Return \/ DoTimers \/ (\E t \in Timers : DoTimer(t)) \/ CalloutReturns \/ InvalidateFired
    \/ TimerDone \/ DoTimersDone
    \/ \E c \in Clients : Client(c)
    \/ Tick

Spec == Init /\ [][Next]_vars

-----------------------------------------------------------------------------
(* Properties.                                                             *)

\* __CFArmNextTimerInMode relies on "our sorted list of timers"
\* (CFRunLoop.c:1905): whatever interleaves, the array of a mode holds each
\* timer that believes to be in the mode, once, and stays sorted, unless a
\* date was set for a timer that had just been added to one more mode.
TimersSorted ==
    \A m \in Modes :
        /\ IsInjective(timers[m])
        /\ ToSet(timers[m]) = {t \in Timers : m \in rlModes[t]}
        /\ m \notin stale => Sorted(timers[m], fireTSR)

\* The alarm of mode m, or its message, comes in time for timer t.
Armed(m, t) ==
    m \in rang \/ (alarm[m].at # Never /\ alarm[m].hard <= fireTSR[t] + Tolerance[t])

\* Whenever the run loop's lock is free, a mode will be woken for each of its
\* timers that may be called, although the alarm is only set when the deadlines
\* change.  Not promised for the modes that a call has missed: those of an
\* unsorted array, those that passed over a timer while it was called elsewhere,
\* and those whose alarm went off for a timer that was just invalidated.
TimersArmed ==
    LockFree =>
        \A m \in Modes \ missed :
            \A t \in (ToSet(timers[m]) \cap valid) \ firing : Armed(m, t)

\* A timer is not called while it is being called, by a run inside its
\* callout either.
TimerNotReentered ==
    \A i, j \in DOMAIN runs :
        runs[i].pc = "Callout" /\ runs[j].pc = "Callout"
        /\ runs[i].call = runs[j].call => i = j
=============================================================================
