---------------------------------- MODULE Texts ----------------------------------
(* Texts the broker reads from its environment and from the network: the list of  *)
(* seed peers and the beacons.  A text is a sequence of characters, of which a    *)
(* word or a number counts as one.                                                *)
(* Models parsePeerList and parsePort of src/common/config.h and the codec of     *)
(* src/common/beacon.cpp.                                                         *)
EXTENDS Integers, Sequences, SequencesExt, FiniteSetsExt

CONSTANTS MaxText,         \* bound: length of a list of peers
          MaxClusterName   \* 64, in isValidClusterName

PeerChars == {",", " ", "a", "b"}
NameChars == {"c", "|"}
Number == [zero |-> 0, five |-> 5, top |-> 65535, over |-> 65536]
Digits(n) == CHOOSE w \in DOMAIN Number : Number[w] = n

VARIABLES text,            \* a list of peers
          beacon           \* what is to be encoded
textVars == <<text, beacon>>
--------------------------------------------------------------------------------
(* The loop over the commas, and within a piece the two loops over spaces.        *)
PieceEnd(t, pos) == Min({i \in pos .. Len(t) : t[i] = ","} \cup {Len(t) + 1})
PieceBegin(t, pos) == Min({i \in pos .. PieceEnd(t, pos) - 1 : t[i] # " "} \cup {PieceEnd(t, pos)})
PieceTrimmed(t, pos) == Max({i \in PieceBegin(t, pos) + 1 .. PieceEnd(t, pos) : t[i - 1] # " "} \cup {PieceBegin(t, pos)})

parsePeerList(t) ==
    LET peers[pos \in 1 .. Len(t) + 1] ==
            (IF PieceTrimmed(t, pos) > PieceBegin(t, pos) THEN <<SubSeq(t, PieceBegin(t, pos), PieceTrimmed(t, pos) - 1)>> ELSE <<>>)
                \o (IF PieceEnd(t, pos) > Len(t) THEN <<>> ELSE peers[PieceEnd(t, pos) + 1])
    IN  peers[1]
--------------------------------------------------------------------------------
isValidClusterName(name) ==
    name # <<>> /\ Len(name) <= MaxClusterName /\ "|" \notin Range(name)

encode(b) == <<"WISP", "|", "1", "|">> \o b.cluster \o <<"|">> \o b.uuid
                 \o <<"|", Digits(b.routerPort), "|", Digits(b.tapPort)>>

(* std::stoi, which takes a number and ignores what follows it.                   *)
parsePort(t, least) ==
    IF t # <<>> /\ t[1] \in DOMAIN Number /\ Number[t[1]] \in least .. 65535 THEN Number[t[1]] ELSE -1

Fields(s) ==
    LET fields[start \in 1 .. Len(s) + 1] ==
            LET bar == Min({i \in start .. Len(s) : s[i] = "|"} \cup {Len(s) + 1})
            IN  <<SubSeq(s, start, bar - 1)>> \o (IF bar > Len(s) THEN <<>> ELSE fields[bar + 1])
    IN  fields[1]

decode(s) ==
    LET f == Fields(s)
        decodes == /\ Len(f) = 6 /\ f[1] = <<"WISP">> /\ f[2] = <<"1">>
                   /\ parsePort(f[5], 1) # -1 /\ parsePort(f[6], 0) # -1
    IN  IF decodes THEN {[cluster |-> f[3], uuid |-> f[4], routerPort |-> parsePort(f[5], 1),
                          tapPort |-> parsePort(f[6], 0)]}
        ELSE {}
--------------------------------------------------------------------------------
Names == UNION {[1 .. n -> NameChars] : n \in 0 .. MaxClusterName + 1}

TextInit ==
    /\ text = <<>>
    /\ beacon \in [cluster : Names, uuid : {<<"u">>}, routerPort : {5, 65535}, tapPort : {0, 5}]
TextNext == /\ Len(text) < MaxText /\ \E c \in PeerChars : text' = Append(text, c)
            /\ beacon.cluster = <<>> /\ beacon.routerPort = 5 /\ beacon.tapPort = 0
            /\ UNCHANGED beacon

(* The peers are, from left to right, the stretches between commas without the    *)
(* spaces around them, where there is anything else.                              *)
Peers(t) ==
    {<<i, j>> \in (DOMAIN t) \X (DOMAIN t) :
        /\ i <= j /\ t[i] # " " /\ t[j] # " " /\ \A k \in i .. j : t[k] # ","
        /\ \E k \in 0 .. i - 1 : (k > 0 => t[k] = ",") /\ \A l \in k + 1 .. i - 1 : t[l] = " "
        /\ \E k \in j + 1 .. Len(t) + 1 : (k <= Len(t) => t[k] = ",") /\ \A l \in j + 1 .. k - 1 : t[l] = " "}
PeerListIsSplit ==
    LET spans == SetToSortSeq(Peers(text), LAMBDA a, b : a[1] < b[1])
    IN  parsePeerList(text) = [i \in DOMAIN spans |-> SubSeq(text, spans[i][1], spans[i][2])]

(* A beacon of a cluster whose name isValidClusterName accepted decodes to what   *)
(* was encoded: no field runs into the next one.                                  *)
BeaconsRoundTrip ==
    isValidClusterName(beacon.cluster) => decode(encode(beacon)) = {beacon}
================================================================================
