--------------------------- MODULE EncoderContract ---------------------------
(***************************************************************************)
(* What an encoder promises its stream (EncoderSession.h, EncoderTypes.h): *)
(* a queue.  Each frame it accepts, a new picture or the last one again,   *)
(* comes out once and in order, whatever the bitrate changes in between.   *)
(* A key frame asked for is the next frame accepted, unless an attempt to  *)
(* submit one fails in between: the request is then given up.  A failed    *)
(* encoder gives out nothing more; its caller replaces it.                 *)
(***************************************************************************)
EXTENDS Naturals, Sequences

VARIABLES queue, asked, picture, accepted, out, failed

vars == <<queue, asked, picture, accepted, out, failed>>

Init ==
    /\ queue = <<>> /\ ~asked /\ ~failed
    /\ picture = 0 /\ accepted = 0
    /\ out = [frame |-> 0, picture |-> 0, key |-> FALSE]

Accept ==
    /\ ~failed
    /\ \E key \in BOOLEAN, p \in {accepted + 1, picture} \ {0} :
        /\ asked => key
        /\ queue' = Append(queue, [frame |-> accepted + 1, picture |-> p, key |-> key])
        /\ picture' = p
    /\ accepted' = accepted + 1
    /\ asked' = FALSE
    /\ UNCHANGED <<out, failed>>

Take ==
    /\ ~failed /\ queue # <<>>
    /\ out' = Head(queue)
    /\ queue' = Tail(queue)
    /\ UNCHANGED <<asked, picture, accepted, failed>>

Ask == ~failed /\ asked' = TRUE /\ UNCHANGED <<queue, picture, accepted, out, failed>>
GiveUp == asked' = FALSE /\ UNCHANGED <<queue, picture, accepted, out, failed>>

Fail ==
    /\ failed' = TRUE
    /\ asked' \in {asked, FALSE}
    /\ queue' \in {queue, IF queue = <<>> THEN queue ELSE Tail(queue)}
    /\ UNCHANGED <<picture, accepted, out>>

Replace ==
    /\ queue' = <<>> /\ ~asked' /\ ~failed' /\ picture' = 0
    /\ UNCHANGED <<accepted, out>>

Next == Accept \/ Take \/ Ask \/ GiveUp \/ Fail \/ Replace

Spec == Init /\ [][Next]_vars
=============================================================================
