---------------------------- MODULE MCCollectors ----------------------------
(* Two hours of two batches, a tick standing for a quarter of an hour: the  *)
(* lags keep the order they have in the code (5 < 45 < 60 < 90 minutes).    *)
(* The last batch of the first hour may be late.  Event 1 is listed in both *)
(* batches of an hour, event 3 has no articles; the hour that is over when  *)
(* the daemon starts had none.                                              *)
EXTENDS Collectors

Ev(id, country, codes, articles, tone) ==
    [id |-> id, country |-> country, codes |-> codes, articles |-> articles, tone |-> tone]
MCExport == [s \in {-2, 0, 2, 4, 6, 8} |->
                IF s \in {-2, 0} THEN <<>>
                ELSE IF s \in {2, 6} THEN <<Ev(1, "US", {"conflict"}, 2, -1), Malformed>>
                ELSE <<Ev(1, "US", {"conflict"}, 2, -1), Ev(3, "UK", {}, 0, 1)>>]
\* Regions in the order of REGIONS: GLOBAL and UK.
MCRegions == <<AllCountries, {"UK"}>>
MCEvery   == [gdelt |-> 2, cal |-> 2]

Row(kind, local, zone) == [kind |-> kind, local |-> local, zone |-> zone]
MCZones == [utc |-> 0, ny |-> -1]
\* Releases at 6, 9 and 12; a second release at 9 breaks the file; then the last one is moved.
MCCalendar1 == <<Row("cpi", 12, "utc"), Row("cpi", 5, "ny"), Row("nfp", 7, "mars"), Row("cpi", 9, "utc")>>
MCCalendars == <<MCCalendar1, Append(MCCalendar1, Row("cpi", 8, "ny")),
                 [MCCalendar1 EXCEPT ![1].local = 11]>>
=============================================================================
