------------------------------ MODULE DpmsSpec ------------------------------
(***************************************************************************)
(* What the DPMS/sleep state detector promises (spec 4.6): one state-free  *)
(* decision per call, from the bus record, the session type, the sysfs     *)
(* reliability of the bus, the X11 power-management answer and the         *)
(* connector's dpms attribute.                                             *)
(***************************************************************************)
CONSTANTS
  DpmsValues,   \* values the dpms attribute can be read as
  Unreadable    \* the dpms attribute could not be read

VARIABLES
  rec,          \* the inputs of the call, fixed for its duration
  done,         \* the call has returned
  asleep,       \* its result
  dpmsRead,     \* the dpms sysfs attribute has been read
  x11Queried    \* the X11 power-management path has been consulted

vars == <<rec, done, asleep, dpmsRead, x11Queried>>

Inputs == [hasRecord : BOOLEAN,  \* the display has a bus record
           x11Session : BOOLEAN, \* the session is a legacy X11 session
           reliable : BOOLEAN,   \* sysfs is classified reliable for the bus
           connector : BOOLEAN,  \* the record has a correlated connector
           dpms : DpmsValues \cup {Unreadable},
           x11Answer : BOOLEAN]  \* what the X11 extension says

\* Steps 1-3 of 4.6; an unresolved connector falls back conservatively
\* (spec 6), and an unreadable attribute is fail-open.
Decision(r) ==
  CASE ~r.hasRecord                -> FALSE
    [] r.x11Session /\ ~r.reliable -> r.x11Answer
    [] ~r.reliable                 -> FALSE
    [] ~r.connector                -> FALSE
    [] r.dpms = Unreadable         -> FALSE
    [] OTHER                       -> r.dpms # "On"

\* Sources consulted: X11 only in step 1, the dpms attribute only in step 3.
ConsultsX11(r)  == r.hasRecord /\ r.x11Session /\ ~r.reliable
ReadsDpms(r)    == r.hasRecord /\ r.reliable /\ r.connector

Init ==
  /\ rec \in Inputs
  /\ done = FALSE
  /\ asleep = FALSE
  /\ dpmsRead = FALSE
  /\ x11Queried = FALSE

Decide ==
  /\ ~done
  /\ done' = TRUE
  /\ asleep' = Decision(rec)
  /\ dpmsRead' = ReadsDpms(rec)
  /\ x11Queried' = ConsultsX11(rec)
  /\ UNCHANGED rec

Spec == Init /\ [][Decide]_vars /\ WF_vars(Decide)

=============================================================================
