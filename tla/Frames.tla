--------------------------------- MODULE Frames ---------------------------------
(* Messages as ZeroMQ carries them: groups of frames, of which a frame says only   *)
(* whether another one follows.  This project's senders write a header and perhaps *)
(* a payload; other programs may write any group to the same socket.               *)
(* Models src/common/zmqframes.h and the receiving part of the broker's loop.      *)
EXTENDS Integers, Sequences, SequencesExt, FiniteSetsExt

CONSTANTS MaxSent, MaxForeign      \* bounds: messages, groups of other programs

VARIABLES router,          \* the reader is the broker's ROUTER socket
          stream,          \* frames that were written and not read: <<content, more>>
          groups,          \* history: the contents that each writer meant as one group
          accepted,        \* history: contents of the messages sendFrames returned true for
          processed,       \* history: messages the reader took
          malformed        \* what noteMalformed counted
frameVars == <<router, stream, groups, accepted, processed, malformed>>

Foreign == {<<"header", 0>>, <<"bad", 0>>}
decodeHeader(content) == content[1] = "header"

FrameInit ==
    /\ router \in BOOLEAN
    /\ stream = <<>> /\ groups = <<>> /\ accepted = <<>> /\ processed = <<>> /\ malformed = 0
--------------------------------------------------------------------------------
(* External: a ROUTER puts the sender's identity before each group.               *)
Identity == IF router THEN <<<<<<"identity", 0>>, TRUE>>>> ELSE <<>>
Framed(contents) ==
    Identity \o [i \in DOMAIN contents |-> <<contents[i], i < Len(contents)>>]

FramesOf(header, payload) ==
    Identity \o <<<<header, payload # <<>> >>>> \o [i \in DOMAIN payload |-> <<payload[i], FALSE>>]
(* External: the first frame may be refused; the others then are not.             *)
sendFrames(payload) ==
    LET n == Len(accepted) + 1
        header == <<"header", n>>
        body == IF payload THEN <<<<"payload", n>>>> ELSE <<>>
    IN  /\ Len(accepted) < MaxSent
        /\ stream' = stream \o FramesOf(header, body)
        /\ accepted' = Append(accepted, <<header>> \o body)
        /\ groups' = Append(groups, <<header>> \o body)
        /\ UNCHANGED <<router, processed, malformed>>

ForeignGroup(contents) ==
    /\ Len(groups) - Len(accepted) < MaxForeign
    /\ stream' = stream \o Framed(contents)
    /\ groups' = Append(groups, contents)
    /\ UNCHANGED <<router, accepted, processed, malformed>>
(* A group of the identity alone.                                                 *)
SinglePart ==
    /\ router /\ Len(groups) - Len(accepted) < MaxForeign
    /\ stream' = Append(stream, <<<<"identity", 0>>, FALSE>>)
    /\ groups' = Append(groups, <<>>)
    /\ UNCHANGED <<router, accepted, processed, malformed>>
--------------------------------------------------------------------------------
More(s) == s[1][2]
(* s, whose first frame has been read, without the rest of its group.             *)
drainMultipart(s) == SubSeq(s, Min({i \in DOMAIN s : ~ s[i][2]}) + 1, Len(s))

(* A header and a payload; s begins with the header.                              *)
TakesGroup(s) ==
    IF ~ decodeHeader(s[1][1])
    THEN /\ malformed' = malformed + 1 /\ UNCHANGED processed
         /\ stream' = drainMultipart(s)
    ELSE /\ processed' = Append(processed, <<s[1][1]>> \o (IF More(s) THEN <<s[2][1]>> ELSE <<>>))
         /\ stream' = (IF More(s) THEN drainMultipart(Tail(s)) ELSE Tail(s)) /\ UNCHANGED malformed

Readable == \E i \in DOMAIN stream : ~ stream[i][2]      \* a group is complete
recv == ~ router /\ Readable /\ TakesGroup(stream) /\ UNCHANGED <<router, groups, accepted>>
BrokerReads ==
    /\ router /\ Readable
    /\ \/ More(stream) /\ TakesGroup(Tail(stream))
       \/ ~ More(stream) /\ malformed' = malformed + 1 /\ stream' = Tail(stream) /\ UNCHANGED processed
    /\ UNCHANGED <<router, groups, accepted>>

FrameNext ==
    \/ \E payload \in BOOLEAN : sendFrames(payload)
    \/ \E length \in 1 .. 3 : \E contents \in [1 .. length -> Foreign] : ForeignGroup(contents)
    \/ SinglePart \/ recv \/ BrokerReads
--------------------------------------------------------------------------------
Message(group) == SubSeq(group, 1, Min({2, Len(group)}))
IsMessageGroup(group) == group # <<>> /\ decodeHeader(group[1])
(* Whatever else is written to the socket, a reader takes every group for one      *)
(* message or for none: it is never out of step, and what follows a bad header or  *)
(* a payload is not taken for another message.                                     *)
EachGroupIsOneMessage ==
    LET read == SubSeq(groups, 1, Len(processed) + malformed)
        good == SelectSeq(read, IsMessageGroup)
    IN  /\ Len(processed) + malformed <= Len(groups)
        /\ processed = [i \in DOMAIN good |-> Message(good[i])]

(* The messages that sendFrames accepted arrive whole and in order, none joined    *)
(* with another, and when all is read all of them have arrived.                    *)
AcceptedArriveWhole ==
    LET own == SelectSeq(processed, LAMBDA message : message[1][2] # 0)
    IN  IsPrefix(own, accepted) /\ (stream = <<>> => own = accepted)
================================================================================
