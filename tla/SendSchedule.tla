---------------------------- MODULE SendSchedule ----------------------------
(***************************************************************************)
(* compute_send_ats (send_schedule.py): n send times in daily windows, by  *)
(* parallel cursors, at most so many a day.  One call is one behaviour, an *)
(* iteration of its loop one step.                                         *)
(*                                                                         *)
(* Time is counted from midnight of day 0 in the zone of the windows; a    *)
(* day has DayLength units (a change of the clocks is left out).  A gap is *)
(* drawn from Gaps or, in the last RushTail of a window, from RushGaps.    *)
(***************************************************************************)
EXTENDS Integers, Sequences, FiniteSets

CONSTANTS
  DayLength, WindowStart, WindowLength, RushTail,
  Gaps, RushGaps,
  Cursors, FirstCursor, \* sender_count, and the first of them
  Stagger,              \* how much later a cursor starts than the first
  Slack,                \* iterations the guard allows beyond 8 for a send (2000)
  Counts, Caps,         \* how many sends a call may ask for, how many a day; 0 is no cap
  Starts                \* when a call may be made

ASSUME ScheduleAssumption ==
  /\ DayLength \in Nat \ {0} /\ WindowStart \in 0..(DayLength - 1) /\ WindowLength \in 1..DayLength
  /\ RushTail \in Nat /\ Slack \in Nat
  /\ Gaps \subseteq Nat \ {0} /\ RushGaps \subseteq Nat \ {0}
  /\ Counts \subseteq Nat /\ Caps \subseteq Nat /\ Starts \subseteq Nat
  /\ FirstCursor \in Cursors /\ Stagger \in [Cursors -> Nat] /\ Stagger[FirstCursor] = 0

VARIABLES
  ask,      \* the arguments: n, cap, startAfter
  sender,   \* of each cursor, the window it is in and its next send
  sendAts,  \* the times so far
  guard,    \* iterations so far
  ended
scheduleVars == <<ask, sender, sendAts, guard, ended>>

DateOf(t) == t \div DayLength
Open(d) == d * DayLength + WindowStart
Close(d) == Open(d) + WindowLength        \* may be on the next date

(* The first window that closes after t, and where in it a cursor starts:   *)
(* the search begins with the window that opens on the date of t.           *)
WindowFrom(t) ==
  LET d == IF Close(DateOf(t)) > t THEN DateOf(t) ELSE DateOf(t) + 1 IN
  [close |-> Close(d), at |-> IF Open(d) > t THEN Open(d) ELSE t]

FirstSend(s, startAfter) ==
  LET w == WindowFrom(startAfter)
      at == w.at + Stagger[s] IN
  IF at >= w.close THEN WindowFrom(w.close) ELSE [w EXCEPT !.at = at]

ScheduleInit ==
  /\ ask \in [n : Counts, cap : Caps, startAfter : Starts]
  /\ sender = [s \in Cursors |-> FirstSend(s, ask.startAfter)]
  /\ sendAts = <<>> /\ guard = 0 /\ ended = FALSE

OnDate(d) == Cardinality({i \in DOMAIN sendAts : DateOf(sendAts[i]) = d})

GuardOfSends(n) == n + Slack                                  \* mutant: an iteration for a send
GuardOf(n) == 8 * n + Slack

(* The cursor that sends next. *)
Due == {s \in Cursors : \A o \in Cursors : sender[s].at <= sender[o].at}
Iterating == ~ended /\ Len(sendAts) < ask.n /\ guard < GuardOf(ask.n)

(* The day is full: the cursor goes to the next window. *)
Full(d) == ask.cap # 0 /\ OnDate(d) >= ask.cap

RollCursor(s) ==
  /\ Iterating /\ s \in Due /\ Full(DateOf(sender[s].at))
  /\ sender' = [sender EXCEPT ![s] = WindowFrom(sender[s].close)]
  /\ guard' = guard + 1
  /\ UNCHANGED <<ask, sendAts, ended>>

(* A gap that would end outside the window takes it to the next one.        *)
AfterGap(w, gap) == IF w.at + gap >= w.close THEN WindowFrom(w.close) ELSE [w EXCEPT !.at = w.at + gap]

Emit(s) ==
  LET w == sender[s] IN
  /\ Iterating /\ s \in Due /\ ~Full(DateOf(w.at))
  /\ sendAts' = Append(sendAts, w.at)
  /\ \E gap \in IF w.at >= w.close - RushTail THEN RushGaps ELSE Gaps :
       sender' = [sender EXCEPT ![s] = AfterGap(w, gap)]
  /\ guard' = guard + 1
  /\ UNCHANGED <<ask, ended>>

(* The caller gives the recipients the times one by one; who is left when   *)
(* the times are used up gets none.                                         *)
Return ==
  /\ ~ended /\ ~Iterating
  /\ ended' = TRUE
  /\ UNCHANGED <<ask, sender, sendAts, guard>>

ScheduleNext == Return \/ \E s \in Cursors : RollCursor(s) \/ Emit(s)

ScheduleSpec == ScheduleInit /\ [][ScheduleNext]_scheduleVars

-----------------------------------------------------------------------------
InWindow(t) == \E d \in {DateOf(t) - 1, DateOf(t)} : d >= 0 /\ Open(d) <= t /\ t < Close(d)

ScheduleTypeOK ==
  /\ ask \in [n : Counts, cap : Caps, startAfter : Starts]
  /\ sender \in [Cursors -> [close : Nat, at : Nat]]
  /\ sendAts \in Seq(Nat)
  /\ guard \in 0..GuardOf(ask.n)
  /\ ended \in BOOLEAN

(* Each cursor stands inside a window, after the time of the call.          *)
CursorsInside ==
  \A s \in Cursors : /\ ask.startAfter <= sender[s].at /\ sender[s].at < sender[s].close
                     /\ InWindow(sender[s].at)

ScheduleInv == ScheduleTypeOK /\ CursorsInside

(* However the gaps fall, whatever day the call is made on and however      *)
(* often cursors roll over a full day, the sends are inside windows, after  *)
(* the call, no more of one date than the cap, and when the loop ends there *)
(* is one for each recipient: none of them is left out.                     *)
ScheduleHonoured ==
  /\ \A i \in DOMAIN sendAts : InWindow(sendAts[i]) /\ ask.startAfter <= sendAts[i]
  /\ ask.cap # 0 => \A i \in DOMAIN sendAts : OnDate(DateOf(sendAts[i])) <= ask.cap
  /\ ended => Len(sendAts) = ask.n
=============================================================================
