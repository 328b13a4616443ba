------------------------ MODULE NotificationFraming -------------------------
(***************************************************************************)
(* The pure helpers of src/netconf_client_non_blocking.cpp that cut the    *)
(* notification byte stream into frames.                                   *)
(*                                                                         *)
(* A stream is a sequence of tokens <<kind, session>>.  The session is the *)
(* notification session the bytes came from; the helpers look at the kind: *)
(*    "open"   a <notification> start tag      "half"  one half, ]]>, of   *)
(*    "close"  a </notification> tag                   the EOM marker      *)
(*    "ws"     white space                     any other kind: text        *)
(* The EOM marker ]]>]]> is two halves, so that a read can split it; a tag *)
(* is one token, since a tag cut short is no different from text to every  *)
(* helper.  Sizes count tokens.  Positions start at 1; 0 stands for npos.  *)
(***************************************************************************)
EXTENDS Integers, Sequences, SequencesExt

Kind(t) == t[1]

\* The first position of data at or after from whose token has kind k.
FindKind(data, from, k) ==
    LET hits == {i \in from..Len(data) : Kind(data[i]) = k}
    IN  IF hits = {} THEN 0 ELSE Min(hits)

\* find_notification_start_tag
FindStart(data, from) == FindKind(data, from, "open")

\* notification_end_after_start: the position of the close tag that ends the
\* notification opened at start, 0 when there is none.
EndAfterStart(data, start) == FindKind(data, start + 1, "close")

\* _notif_rx_buffer.find(NETCONF_NOTIFICATION_EOM)
FindEom(data) ==
    LET hits == {i \in 1..(Len(data) - 1) :
                    Kind(data[i]) = "half" /\ Kind(data[i + 1]) = "half"}
    IN  IF hits = {} THEN 0 ELSE Min(hits)

\* trim_copy(data).empty()
Blank(data) == \A i \in DOMAIN data : Kind(data[i]) = "ws"

\* benign_notification_prefix.  An XML declaration counts as white space, here and
\* in a frame; the code takes a frame that is nothing but a declaration for an
\* invalid document, which it queues, and not for an empty one.
BenignPrefix(prefix) == Blank(prefix)

\* One token of tinyxml2's Parse(): elements nest, a close tag at the top level
\* ends the parse without an error, and text must be followed by a tag.
XmlStep(s, t) ==
    CASE s.over                               -> s
      [] ~s.over /\ Kind(t) = "open"          -> [s EXCEPT !.depth = @ + 1, !.root = TRUE,
                                                           !.text = FALSE]
      [] ~s.over /\ Kind(t) = "close" /\ s.depth > 0
                                              -> [s EXCEPT !.depth = @ - 1, !.text = FALSE]
      [] ~s.over /\ Kind(t) = "close" /\ s.depth = 0
                                              -> [s EXCEPT !.over = TRUE, !.text = FALSE]
      [] ~s.over /\ Kind(t) = "ws"            -> s
      [] OTHER                                -> [s EXCEPT !.text = TRUE]

\* is_valid_notification_document: it parses, and its root is a notification.
ValidDocument(frame) ==
    LET end == FoldLeft(XmlStep, [depth |-> 0, root |-> FALSE, text |-> FALSE,
                                  over |-> FALSE], frame)
    IN  end.root /\ (end.over \/ (end.depth = 0 /\ ~end.text))

-----------------------------------------------------------------------------
(***************************************************************************)
(* What the properties of the stream are stated with                       *)
(***************************************************************************)
\* The sum of a sequence of numbers.
Total(ns) ==
    LET sum[i \in 0..Len(ns)] == IF i = 0 THEN 0 ELSE sum[i - 1] + ns[i]
    IN  sum[Len(ns)]

\* One token of a stream that is cut after each EOM marker.
EomStep(s, t) ==
    LET cur == Append(s.cur, t)
        n == Len(cur)
    IN  IF n > 1 /\ Kind(cur[n - 1]) = "half" /\ Kind(cur[n]) = "half"
          THEN [frames |-> Append(s.frames, cur), cur |-> <<>>]
          ELSE [s EXCEPT !.cur = cur]

\* A stream cut after each EOM marker: the frames, and what follows the last one.
EomSplit(data) ==
    LET split[i \in 0..Len(data)] ==
            IF i = 0 THEN [frames |-> <<>>, cur |-> <<>>] ELSE EomStep(split[i - 1], data[i])
    IN  split[Len(data)]

\* A message with one start tag and nothing before it, complete or not.
Orderly(m) ==
    \/ Blank(m)
    \/ LET start == FindStart(m, 1)
       IN  start # 0 /\ Blank(SubSeq(m, 1, start - 1)) /\ FindStart(m, start + 1) = 0
=============================================================================
