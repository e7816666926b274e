--------------------------- MODULE StreamService ---------------------------
(***************************************************************************)
(* What the users of a mux session (request_client_stream, handle_open and *)
(* the relay threads) are promised: each half of a stream delivers what    *)
(* the other half writes, in order and without gaps, and reports the end   *)
(* of the stream only for a reason.  A half is a pair of an end of the     *)
(* session and a stream id.                                                *)
(***************************************************************************)
EXTENDS Naturals

CONSTANTS Ends, Ids

VARIABLES
  sent,    \* chunks written by a half
  got,     \* chunks of the other half delivered to its reader, in order
  shut,    \* the half has closed its direction
  eof,     \* the reader of the half has been told of the end
  failed   \* the ends that may cut their streams short

serviceVars == <<sent, got, shut, eof, failed>>

Halves == Ends \X Ids
Other(h) == <<CHOOSE e \in Ends : e # h[1], h[2]>>

ServiceInit ==
  /\ sent = [h \in Halves |-> 0]
  /\ got = [h \in Halves |-> 0]
  /\ shut = [h \in Halves |-> FALSE]
  /\ eof = [h \in Halves |-> FALSE]
  /\ failed = {}

Send(h) ==
  /\ ~shut[h]
  /\ sent' = [sent EXCEPT ![h] = @ + 1]
  /\ UNCHANGED <<got, shut, eof, failed>>

Shut(h) ==
  /\ ~shut[h]
  /\ shut' = [shut EXCEPT ![h] = TRUE]
  /\ UNCHANGED <<sent, got, eof, failed>>

Deliver(h) ==
  /\ ~eof[h]
  /\ got[h] < sent[Other(h)]
  /\ got' = [got EXCEPT ![h] = @ + 1]
  /\ UNCHANGED <<sent, shut, eof, failed>>

\* The end is reported when everything the other half wrote before closing
\* has been delivered, after the half has closed its own direction, or when
\* this end of the session is lost.
End(h) ==
  /\ ~eof[h]
  /\ \/ shut[Other(h)] /\ got[h] = sent[Other(h)]
     \/ shut[h]
     \/ h[1] \in failed
  /\ eof' = [eof EXCEPT ![h] = TRUE]
  /\ UNCHANGED <<sent, got, shut, failed>>

Fail ==
  /\ failed' \in SUBSET Ends
  /\ failed \subseteq failed'
  /\ UNCHANGED <<sent, got, shut, eof>>

ServiceNext ==
  \/ \E h \in Halves : Send(h) \/ Shut(h) \/ Deliver(h) \/ End(h)
  \/ Fail

ServiceSpec == ServiceInit /\ [][ServiceNext]_serviceVars

=============================================================================
