----------------------------- MODULE MCContactors -----------------------------
(* Contactors with a reading for each range between the current thresholds.  *)
EXTENDS Contactors

\* 200 mA passes every check, 1000 mA only those of an opening, and 5000 mA only
\* that of a delayed opening; a stale reading passes none, as one above all would.
MCCurrents == {200, 1000, 5000}

===============================================================================
