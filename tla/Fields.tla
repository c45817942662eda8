-------------------------------- MODULE Fields --------------------------------
(***************************************************************************)
(* A client's expiry on its way through the edit form: localDate writes it *)
(* into the field in the browser's local time, to the minute, and saving   *)
(* reads it back with `new Date`, also when nobody has touched it.         *)
(*                                                                         *)
(* Administrators sit in different time zones.  A zone is two offsets and  *)
(* the moment that the second one takes over; the clock is put forward or  *)
(* back there.                                                             *)
(***************************************************************************)
EXTENDS Integers

CONSTANTS Zones,    \* [at, before, after]
          Moments,  \* the expiries there are
          Minute    \* seconds

VARIABLES expires,  \* expires_at
          saved     \* the zone where the form was last saved, if it was

vars == <<expires, saved>>
Never == 0    \* null and 0: no expiry, an empty field

\* getTimezoneOffset, with the other sign.
Offset(z, t) == IF t < z.at THEN z.before ELSE z.after

\* A variant that a property must tell apart: toISOString of the date itself.
LocalDateUtc(z, t) == t - (t % Minute)

LocalDate(z, t) == LET l == t + Offset(z, t) IN l - (l % Minute)

\* new Date(local): of a local time that occurs twice the first, and one that is skipped
\* is read with the offset before.
Date(z, l) == IF l - z.before >= z.at /\ l - z.after >= z.at THEN l - z.after ELSE l - z.before

Saved(z, t) == IF t = Never THEN Never ELSE Date(z, LocalDate(z, t))

Init == expires \in Moments \cup {Never} /\ saved = {}

\* The form is saved for the sake of another field.
SaveUntouched(z) == expires' = Saved(z, expires) /\ saved' = {z}
\* Another date is chosen, or none.  (A new client's counts in days from the second it is saved.)
SaveDate(z, t) == expires' = t /\ saved' = {z}

Next == \E z \in Zones : \/ SaveUntouched(z)
                         \/ \E t \in {Saved(z, m) : m \in Moments} \cup {Never} : SaveDate(z, t)

Spec == Init /\ [][Next]_vars

-----------------------------------------------------------------------------
\* A local time that occurs twice.
Repeated(z, t) == \E u \in (t - z.before + z.after)..(t - 1) :
                    u + Offset(z, u) = t + Offset(z, t)

\* Saving a form for another field's sake prolongs nobody's access, in no time zone and on
\* neither of the days that the clocks change.
NeverProlongs == \A z \in Zones : expires # Never => Saved(z, expires) <= expires

\* It shortens it by less than a minute, but for the second of two local times that are alike,
\* which becomes the first.
LosesAMinute ==
  \A z \in Zones : expires # Never =>
    expires - Saved(z, expires) < Minute + (IF Repeated(z, expires) THEN z.before - z.after ELSE 0)

\* And it does so once: the next form in the same zone changes nothing further.
Settles == \A z \in saved : Saved(z, expires) = expires

\* The three: no form that is saved for another field's sake moves an expiry further.
EditKeepsExpiry == NeverProlongs /\ LosesAMinute /\ Settles
=============================================================================
