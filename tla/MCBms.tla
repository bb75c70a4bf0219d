--------------------------------- MODULE MCBms ---------------------------------
(* Bms with a second for a time unit, and the long waits shortened.           *)
EXTENDS Bms

\* A reading that passes every check and one that only a delayed opening accepts;
\* a stale reading passes none, as one above all thresholds would.
MCCurrents == {200, 5000}
MCLowCurrent == {200}

\* Every request a user can write; the HMI may also write the null request.
AllRequests == {"NULL", "RUN", "STOP", "CALIBRATE_OFFLINE_LONG", "CALIBRATE_OFFLINE_SHORT",
                "CALIBRATE_ONLINE", "CALIBRATE_ISOLATION_ZERO"}

\* All but the online calibration, which leaves the system in INACTIVE.
OfflineRequests == AllRequests \ {"CALIBRATE_ONLINE"}

\* Flash that never fails.
Working == {TRUE}
===============================================================================
