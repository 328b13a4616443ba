------------------------------ MODULE MCStream ------------------------------
(***************************************************************************)
(* Instances of NotificationStream.                                        *)
(***************************************************************************)
EXTENDS NotificationStream

Unbounded == -1

Note(p) == <<"open", p, "close", "half", "half">>

\* A device that frames its notifications as it should; white space between them,
\* and half a marker inside one.
WellFormed == {Note("a") \o <<"ws", "open", "close", "half", "half">>,
               Note("a") \o <<"open", "half", "close">>}

\* Everything a device can send in up to three tokens, and more after one frame.
AnyKinds == {"open", "close", "half", "ws", "a"}
Anything == UNION {[1..n -> AnyKinds] : n \in 1..3}
Garbled == Anything
           \cup {<<"open", "a", "open", "close", "half", "half">>,
                 <<"open", "close", "open", "close", "half", "half">>,
                 <<"a", "half", "half", "open", "close", "half", "half">>,
                 <<"half", "half", "half", "open", "close", "open">>}

Mixed == WellFormed \cup Garbled

\* Short messages, enough of them to overflow a queue of one three times.
Short == <<"a", "half", "half">>
Burst == {Short \o Short \o Short \o Short}

\* A message that is cut off.
Cut == {<<"a">>}
=============================================================================
