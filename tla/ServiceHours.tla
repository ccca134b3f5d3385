---------------------------- MODULE ServiceHours ----------------------------
(***************************************************************************)
(* When a customer is in service: the hours the admin serves for it, taken *)
(* from the profile its code names (customers_active), and the listener's  *)
(* judgement of a moment (is_in_service).  No state.                       *)
(*                                                                         *)
(* A moment is a date and a minute of that day in the zone of the profile; *)
(* the conversion of the clock into that zone is left out.                 *)
(***************************************************************************)
EXTENDS Integers, FiniteSets

CONSTANTS
    LastMinute,  \* 23:59
    Week,        \* days of a week
    Dates,       \* dates, as numbers of days
    NoCode       \* no code of a profile

ASSUME HoursAssumption ==
    /\ LastMinute \in Nat \ {0}
    /\ Week \in Nat \ {0}
    /\ Dates \subseteq Nat

Minutes == 0..LastMinute

(* Windows of a day as they are written: 24:00 and more can be written.    *)
Written == 0..(LastMinute + 1)
Windows == [from : Written, to : Written]
Weekday(date) == date % Week
Hours == [schedule : [0..(Week - 1) -> SUBSET Windows], holidays : SUBSET Dates]

NoHours == [schedule |-> [d \in 0..(Week - 1) |-> {}], holidays |-> {}]

(* _parse_hhmm raises for a time the clock cannot show; the window is      *)
(* skipped then.                                                           *)
Parsed(windows) == {w \in windows : w.from \in Minutes /\ w.to \in Minutes}

IsInService(hours, date, now) ==
    /\ date \notin hours.holidays
    /\ \E w \in Parsed(hours.schedule[Weekday(date)]) : w.from <= now /\ now < w.to

(* The rows of service_hours_profiles that customers_active reads: the     *)
(* enabled ones, of every tenant; the last of a code wins.                 *)
Named(profiles, code) ==
    {p \in DOMAIN profiles : profiles[p].code = code /\ profiles[p].enabled}

HoursOf(profiles, code) ==
    IF code = NoCode \/ Named(profiles, code) = {} THEN NoHours
    ELSE LET last == CHOOSE p \in Named(profiles, code) :
                        \A q \in Named(profiles, code) : q <= p
         IN  [schedule |-> profiles[last].schedule, holidays |-> profiles[last].holidays]

(* The minutes a list of windows means: all those between its ends.        *)
Meant(windows) == UNION {w.from..(w.to - 1) : w \in windows}
=============================================================================
