-------------------------------- MODULE Captures --------------------------------
(* wisp-cli record and replay: a capture file written through stdio by a        *)
(* recorder that may be killed or run out of disk, and read back to a broker.   *)
(* A file is a sequence of cells, of which a write may leave only the first.    *)
(* Models src/cli/recording.cpp and the record and replay of src/cli/commands.cpp. *)
EXTENDS Naturals, Sequences, SequencesExt

CONSTANTS MaxFrame,      \* MAX_MESSAGE_SIZE_BYTES
          MaxCaptured    \* bound: messages captured

(* A message: its id, whether its key is reserved, and the sizes of its frames. *)
CaptureMessages == [id : 1 .. MaxCaptured, control : BOOLEAN, header : {1}, payload : {0, 2}]

VARIABLES
    disk, buffer,        \* the file, and what stdio holds back of it
    recorder,            \* "none", "open", then its exit status or "killed"
    captured,            \* history: the messages whose write succeeded
    damaged,             \* history: where a cell of the file went bad, or 0
    replayer,            \* "none", "reads", "publishes", "syncs", or its exit status
    position, inHand,    \* of the reader, and the message read
    includeControl, preserveUuids, cutShort,   \* options; whether it was interrupted
    sent,                \* history: handed to the worker
    routed               \* of those, what the broker routed

fileVars == <<disk, buffer, recorder, captured, damaged>>
replayVars == <<replayer, position, inHand, includeControl, preserveUuids, cutShort, sent, routed>>
captureVars == <<fileVars, replayVars>>

CaptureInit ==
    /\ disk = <<>> /\ buffer = <<>> /\ recorder = "none" /\ captured = <<>> /\ damaged = 0
    /\ replayer = "none" /\ position = 0 /\ inHand = <<>> /\ sent = <<>> /\ routed = <<>>
    /\ includeControl \in BOOLEAN /\ preserveUuids \in BOOLEAN /\ cutShort = FALSE
--------------------------------------------------------------------------------
MAGIC == <<<<"magic">>, <<"magic">>>>

(* The record: the fixed part with the lengths, the header and the payload.     *)
FixedSize == 2
RecordOf(m) ==
    <<<<"lengths", m.header, m.payload>>, <<"fixed">>>>
        \o [i \in 1 .. m.header |-> <<"header", m>>] \o [i \in 1 .. m.payload |-> <<"payload", m>>]

OpensCapture ==
    /\ recorder = "none" /\ disk' = <<>>
    /\ \/ recorder' = "open" /\ buffer' = MAGIC
       \/ recorder' = "failed" /\ UNCHANGED buffer
    /\ UNCHANGED <<captured, damaged, replayVars>>

(* One write for the whole record; stdio decides when its cells reach the disk. *)
WritesRecord(m) ==
    /\ recorder = "open" /\ Len(captured) < MaxCaptured
    /\ m.id = Len(captured) + 1
    /\ buffer' = buffer \o RecordOf(m)
    /\ captured' = Append(captured, m)
    /\ UNCHANGED <<disk, recorder, damaged, replayVars>>

StdioFlushes ==
    /\ recorder = "open"
    /\ \E n \in 1 .. Len(buffer) :
          disk' = disk \o SubSeq(buffer, 1, n) /\ buffer' = SubSeq(buffer, n + 1, Len(buffer))
    /\ UNCHANGED <<recorder, captured, damaged, replayVars>>

(* The disk is full: part of what was to be written is, the consumer returns    *)
(* false, and the recording ends.                                               *)
WriteFails ==
    /\ recorder = "open" /\ Len(captured) < MaxCaptured
    /\ \E m \in CaptureMessages, n \in 0 .. 2 :
          /\ m.id = Len(captured) + 1 /\ n < Len(RecordOf(m))
          /\ disk' = disk \o buffer \o SubSeq(RecordOf(m), 1, n)
    /\ buffer' = <<>> /\ recorder' = "failed"
    /\ UNCHANGED <<captured, damaged, replayVars>>

(* The count is reached or the user interrupts: fclose writes the rest, or not. *)
ClosesCapture ==
    /\ recorder = "open"
    /\ \/ disk' = disk \o buffer /\ recorder' = "done"
       \/ \E n \in 0 .. Len(buffer) : disk' = disk \o SubSeq(buffer, 1, n) /\ recorder' = "failed"
    /\ buffer' = <<>>
    /\ UNCHANGED <<captured, damaged, replayVars>>

RecorderKilled ==
    /\ recorder = "open" /\ recorder' = "killed"
    /\ buffer' = <<>>
    /\ UNCHANGED <<disk, captured, damaged, replayVars>>

(* Afterwards the lengths or the header of one record may go bad.               *)
FileDamaged ==
    /\ recorder \notin {"none", "open"} /\ replayer = "none" /\ damaged = 0
    /\ \E i \in DOMAIN disk :
          /\ \/ /\ disk[i][1] = "lengths"
                /\ \/ \E h \in {0, MaxFrame + 1} : disk' = [disk EXCEPT ![i][2] = h]
                   \/ disk' = [disk EXCEPT ![i][3] = MaxFrame + 1]
             \/ disk[i][1] = "header" /\ disk' = [disk EXCEPT ![i] = <<"garbage">>]
          /\ damaged' = i
    /\ UNCHANGED <<buffer, recorder, captured, replayVars>>
--------------------------------------------------------------------------------
Ends(status) == replayer' = status /\ UNCHANGED <<position, inHand>>

OpensReplay ==
    /\ recorder \notin {"none", "open"} /\ replayer = "none"
    /\ \/ /\ IsPrefix(MAGIC, disk)
          /\ replayer' = "reads" /\ position' = Len(MAGIC) /\ UNCHANGED inHand
       \/ Ends("failed")    \* the magic, or no broker answers
    /\ UNCHANGED <<fileVars, includeControl, preserveUuids, cutShort, sent, routed>>

Rest == Len(disk) - position
Lengths == disk[position + 1]
Implausible(l) == l[2] = 0 \/ l[2] > MaxFrame \/ l[3] > MaxFrame

Incomplete == \/ Rest < FixedSize \/ Implausible(Lengths)
              \/ Rest < FixedSize + Lengths[2] + Lengths[3]
Undecodable == ~ Incomplete /\ disk[position + FixedSize + 1][1] # "header"

(* The message as it is read: its header, and as many payload cells as are there. *)
MessageAt ==
    LET m == disk[position + FixedSize + 1][2]
        there == Rest - FixedSize - Lengths[2]
    IN  [m EXCEPT !.payload = IF there < @ THEN there ELSE @]

CleanEndIfShort == Rest < FixedSize
CleanEnd == Rest <= 0

ReadsRecord ==
    /\ replayer = "reads"
    /\ \/ CleanEnd /\ Ends("syncs")
       \/ ~ CleanEnd /\ (Incomplete \/ Undecodable) /\ Ends("failed")
       \/ /\ ~ CleanEnd /\ ~ Incomplete /\ ~ Undecodable
          /\ position' = position + FixedSize + Lengths[2] + Lengths[3]
          /\ inHand' = MessageAt
          /\ replayer' = IF MessageAt.control /\ ~ includeControl THEN "reads" ELSE "publishes"
    /\ UNCHANGED <<fileVars, includeControl, preserveUuids, cutShort, sent, routed>>

(* The id is cleared, for the broker to give a new one, or kept, and the broker *)
(* remembers it.                                                                *)
IdCleared == ~ preserveUuids

PublishesRecord ==
    /\ replayer = "publishes"
    /\ \/ /\ replayer' = "reads" /\ UNCHANGED <<position, inHand>>
          /\ sent' = Append(sent, inHand)
          /\ routed' = IF IdCleared THEN Append(routed, inHand) ELSE routed
       \/ Ends("failed") /\ UNCHANGED <<sent, routed>>
    /\ UNCHANGED <<fileVars, includeControl, preserveUuids, cutShort>>

ReplayInterrupted ==
    /\ replayer = "reads" /\ Ends("syncs")
    /\ cutShort' = TRUE
    /\ UNCHANGED <<fileVars, includeControl, preserveUuids, sent, routed>>

ReplaySyncs ==
    /\ replayer = "syncs" /\ (Ends("done") \/ Ends("failed"))
    /\ UNCHANGED <<fileVars, includeControl, preserveUuids, cutShort, sent, routed>>

CaptureNext ==
    \/ OpensCapture \/ StdioFlushes \/ WriteFails \/ ClosesCapture \/ RecorderKilled \/ FileDamaged
    \/ \E m \in CaptureMessages : WritesRecord(m)
    \/ OpensReplay \/ ReadsRecord \/ PublishesRecord \/ ReplayInterrupted \/ ReplaySyncs
--------------------------------------------------------------------------------
Replayable(list) == SelectSeq(list, LAMBDA m : includeControl \/ ~ m.control)

(* Whatever became of the recorder and its file, a replay publishes a prefix of *)
(* what was captured: each message whole, in order and once.                    *)
ReplayIsPrefix == IsPrefix(sent, Replayable(captured))

(* A replay that ran to its end and reports success has published everything    *)
(* captured, if the recording reported success as well: a capture cut short or  *)
(* damaged never passes for a whole one.                                        *)
SuccessMeansComplete ==
    replayer = "done" /\ ~ cutShort /\ recorder = "done" => sent = Replayable(captured)

(* And success means that the broker took no message for one it remembers,      *)
(* unless the user asked for the original ids.                                  *)
SuccessMeansRouted == replayer = "done" /\ ~ preserveUuids => routed = sent

(* A file cut short inside a record, by a killed recorder or a full disk, is    *)
(* reported and not taken for a clean end.                                      *)
CutShortIsReported ==
    replayer = "done" /\ ~ cutShort => position = Len(disk)

(* What replay publishes, and what it and record report, is true of the capture.   *)
CaptureIsFaithful ==
    /\ ReplayIsPrefix /\ SuccessMeansComplete /\ SuccessMeansRouted
    /\ CutShortIsReported
================================================================================
