----------------------------- MODULE Gyroscope -----------------------------
(***************************************************************************)
(* sense.c and evt_handler.c of accel_udp: the thread that samples the     *)
(* gyroscope, and the events it sends when an orientation is new and has   *)
(* been seen twice in a row.  s is the static state of the two files.      *)
(***************************************************************************)
EXTENDS UdpifDemos

CONSTANTS
    Byte    \* 256, where evt_no and sequ_no wrap

Directions == 0..3          \* no axis beyond the threshold, x, y, z
REP_LIMIT == 1

(* step is where the thread is: "sleep", or in udpif_send() before or      *)
(* after it writes the address; to is the observer it has come to.         *)
AtStart == [state |-> -1, rep_count |-> 0, evt_no |-> 0, sequ_no |-> 0,
            cmd |-> <<"none", 0, 0>>, to |-> 1, step |-> "sleep"]

(* A confirmation has the number of the event it ends.                     *)
send_event(s, event) ==
    LET no == IF event = "CONFIRM" THEN s.evt_no ELSE (s.evt_no + 1) % Byte
    IN  [s EXCEPT !.evt_no = no, !.cmd = <<event, no, s.sequ_no>>,
                  !.sequ_no = (@ + 1) % Byte, !.to = 1, !.step = "address"]

evt_handler_ok(s) == send_event(s, "CONFIRM")
evt_handler_warn(s) == send_event(s, "WARN")
evt_handler_alarm(s) == send_event(s, "ALARM")

Counted(s, dir) ==
    IF s.state = dir
    THEN [s EXCEPT !.rep_count = IF @ < REP_LIMIT THEN @ + 1 ELSE @]
    ELSE [s EXCEPT !.state = dir, !.rep_count = 0]

check_state_Repeats(s, dir) ==          \* Plausible bug: rep_count is left at its limit
    LET c == Counted(s, dir)
    IN  IF c.rep_count # REP_LIMIT THEN c
        ELSE CASE c.state - 1 = 0 -> evt_handler_ok(c)
               [] c.state - 1 = 1 -> evt_handler_alarm(c)
               [] c.state - 1 = 2 -> evt_handler_warn(c)
               [] OTHER -> c

(* STATE_NORMAL, STATE_DOWN2 and STATE_DOWN1 are 0, 1 and 2.               *)
check_state(s, dir) ==
    LET c == Counted(s, dir)
        past == [c EXCEPT !.rep_count = REP_LIMIT + 1]
    IN  IF c.rep_count # REP_LIMIT THEN c
        ELSE CASE c.state - 1 = 0 -> evt_handler_ok(past)
               [] c.state - 1 = 1 -> evt_handler_alarm(past)
               [] c.state - 1 = 2 -> evt_handler_warn(past)
               [] OTHER -> past

(* After each observer the thread sleeps for a millisecond.                *)
NextObserver(s) ==
    IF s.to < Len(Observers) THEN [s EXCEPT !.to = @ + 1, !.step = "address"]
    ELSE [s EXCEPT !.to = 1, !.step = "sleep"]

=============================================================================
