------------------------------ MODULE LocalTime ------------------------------
(***************************************************************************)
(* LocalTime::from_utc (power.rs): the date of a day counted from          *)
(* 1970-01-01, for when the system cannot convert a time.                  *)
(***************************************************************************)
EXTENDS Integers

\* Years are counted from March, in eras of 400 of them.
Era(days) == (days + 719468) \div 146097
DayOfEra(days) == (days + 719468) % 146097
YearOfEra(doe) == (doe - doe \div 1460 + doe \div 36524 - doe \div 146096) \div 365

FromUtc(days) ==
  LET yoe == YearOfEra(DayOfEra(days))
      doy == DayOfEra(days) - (365 * yoe + yoe \div 4 - yoe \div 100)
      mp == (5 * doy + 2) \div 153
      month == IF mp < 10 THEN mp + 3 ELSE mp - 9
  IN [year |-> yoe + Era(days) * 400 + (IF month <= 2 THEN 1 ELSE 0),
      month |-> month,
      day |-> doy - (153 * mp + 2) \div 5 + 1,
      weekday |-> (days + 4) % 7]

-----------------------------------------------------------------------------
(* The calendar it has to agree with. *)

Epoch == [year |-> 1970, month |-> 1, day |-> 1, weekday |-> 4]

Leap(year) == year % 4 = 0 /\ (year % 100 # 0 \/ year % 400 = 0)
DaysIn(month, year) ==
  IF month = 2 THEN IF Leap(year) THEN 29 ELSE 28
  ELSE IF month \in {4, 6, 9, 11} THEN 30 ELSE 31

Tomorrow(d) ==
  LET last == d.day = DaysIn(d.month, d.year) IN
  [year |-> IF last /\ d.month = 12 THEN d.year + 1 ELSE d.year,
   month |-> IF ~last THEN d.month ELSE IF d.month = 12 THEN 1 ELSE d.month + 1,
   day |-> IF last THEN 1 ELSE d.day + 1,
   weekday |-> (d.weekday + 1) % 7]

\* Over the given days each date is the one after the last one's.
FollowsTheCalendar(first, last) ==
  /\ FromUtc(0) = Epoch
  /\ \A days \in first .. last : FromUtc(days + 1) = Tomorrow(FromUtc(days))
=============================================================================
