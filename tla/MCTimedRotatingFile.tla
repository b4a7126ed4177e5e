------------------------- MODULE MCTimedRotatingFile -------------------------
(* Small instances of TimedRotatingFile: days of four hours.                *)
EXTENDS TimedRotatingFile

Config(w, i, at, day, u, d, count) ==
    [when |-> w, interval |-> i, atTime |-> at, dayOfWeek |-> day, utc |-> u,
     delay |-> d, backupCount |-> count]

MCConfigs ==
    {Config("MIDNIGHT", 1, at, 0, u, FALSE, 1) : at \in {0, 1, Day}, u \in BOOLEAN}
    \cup {Config("MIDNIGHT", 1, at, 0, TRUE, TRUE, 1) : at \in {1, Day}}
    \cup {Config("MIDNIGHT", 2, Day, 0, TRUE, FALSE, 0)}
    \cup {Config("W", 1, at, day, TRUE, FALSE, 1) : at \in {1, Day}, day \in {0, 3}}
    \cup {Config("H", i, 0, 0, TRUE, d, 2) : i \in {1, 2}, d \in BOOLEAN}
    \cup {Config("D", 1, 0, 0, TRUE, d, 0) : d \in BOOLEAN}

(* Clocks go forward on the second day and back on the fourth.              *)
MCSummer == 6 .. 13

Hourly == {Config("H", 1, 0, 0, FALSE, FALSE, 2)}
Nightly == {Config("MIDNIGHT", 1, 1, 0, TRUE, FALSE, 2)}
==============================================================================
