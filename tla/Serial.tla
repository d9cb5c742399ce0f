------------------------------- MODULE Serial -------------------------------
(***************************************************************************)
(* The serial line between the root and the network manager: openserial.c  *)
(* on the mote, SerialThread.java on the other side.  The mote prints      *)
(* frames into a ring of bytes; the slots of the MAC decide when the ring  *)
(* is emptied (idle slots) and when a command may come in (the SERIALRX    *)
(* slot, opened by a request frame that the manager answers with one       *)
(* command).  Each slot begins by stopping whatever was going on.          *)
(*                                                                         *)
(* A byte is a flag or the k-th byte of a frame.  The bytes of a printed   *)
(* frame are those in the ring, after escaping, CRC included.              *)
(***************************************************************************)
EXTENDS Integers, Sequences, FiniteSets, Functions

CONSTANTS
    RingSize,       \* SERIAL_OUTPUT_BUFFER_SIZE (256: the indices are bytes)
    InSize,         \* SERIAL_INPUT_BUFFER_SIZE
    Body,           \* bytes of a printed frame between its flags
    Slots,          \* the kinds of slots of a slotframe, in their order
    SlotBytes,      \* bytes the UART can send in one slot
    Reports,        \* frames the tasks print, beside the status of each slot
    Commands        \* what the other threads of the manager queue, in order: for each
                    \* byte, CRC included, what the mote takes it for

ASSUME SerialAssumption ==
    /\ RingSize \in Nat /\ Body \in Nat \ {0} /\ 2 * (Body + 2) < RingSize
    /\ Slots \in Seq({"radio", "serial", "idle"}) /\ Slots # <<>>
    /\ SlotBytes \in Nat \ {0} /\ Reports \in Nat /\ InSize \in Nat \ {0, 1}
    /\ Commands \in Seq(Seq({"data", "esc", "flag"}) \ {<<>>})

VARIABLES
    mode,           \* "off", "input" or "output"
    ring, iW, iR,   \* outputBuf, outputBufIdxW and outputBufIdxR
    filled,         \* outputBufFilled
    reqIdx,         \* reqFrameIdx
    busy,           \* busyReceiving
    lastFlag,       \* lastRxByte is HDLC_FLAG
    escaping,       \* inputEscaping
    inBuf,          \* inputBuf up to inputBufFill
    txPending,      \* the UART will report the end of a transmission
    slot, room,     \* the slot, and the bytes that fit in what is left of it
    readBuf,        \* _readBuffer of the manager
    queued, polled, \* commands added to _outBuffer, and taken from it
    line,           \* bytes on their way to the mote
    printed,        \* reports printed so far
    got,            \* history: the reports the manager has received, in order
    executed,       \* history: the commands the mote has executed, in order
    unread,         \* history: bytes in the ring the reader will still see
    lost,           \* history: reports hit by an overrun or a request frame
    missed,         \* history: commands of which a byte fell outside a serial slot
    spoiled,        \* history: commands whose first byte an older escape has flipped
    disturbed,      \* history: there was an overrun, or a request tore a frame
    garbled         \* history: the manager took a frame nobody printed

output  == <<ring, iW, unread>>
input   == <<busy, lastFlag, escaping, inBuf>>
manager == <<readBuf, polled, got, garbled>>
excuses == <<lost, disturbed>>
serialVars == <<mode, output, iR, filled, reqIdx, input, txPending, slot, room, manager,
          queued, line, printed, executed, excuses, missed, spoiled>>

-----------------------------------------------------------------------------
(* Bytes and frames.                                                       *)

Flag    == <<0, 0>>
Status  == 0                        \* any frame that is not a report
Request == Reports + 1
Index   == 0 .. RingSize - 1
Bytes   == {Flag} \cup (Status .. Request) \X (1 .. Body)

BodyOf(n)  == [k \in 1 .. Body |-> <<n, k>>]
FrameOf(n) == <<Flag>> \o BodyOf(n) \o <<Flag>>

\* reqFrame: one byte of command, its CRC and the flags.
ReqFrame == FrameOf(Request)

\* The bytes of command c as packageBytes puts them on the line: it adds flags
\* and a CRC, and escapes nothing: any byte between the flags, the last of the CRC
\* included, may look like HDLC_ESCAPE or HDLC_FLAG and is sent as it is.
Byte(c, k, is) == [c |-> c, k |-> k, is |-> is]
CommandByte ==
    [c : 1 .. Len(Commands), k : Nat, is : {"flag", "data", "esc", "flipped"}]
Payload(c) == [k \in 1 .. Len(Commands[c]) |-> Byte(c, k, Commands[c][k])]
CommandBytes(c) == <<Byte(c, 0, "flag")>> \o Payload(c) \o <<Byte(c, 0, "flag")>>

-----------------------------------------------------------------------------
(* Printing: into the ring, whatever is there.                             *)

ReportsIn(bytes) == {bytes[i][1] : i \in DOMAIN bytes} \cap 1 .. Reports
InRing == ReportsIn([i \in 1 .. unread |-> ring[(iR + i - 1) % RingSize]])
InHand == ReportsIn(readBuf)

\* Mutant: the index is too wide to wrap by itself, and what lies behind the end
\* of the buffer is not sent.
OverwrittenUnwrapped(bytes) ==
    [i \in Index |-> LET k == i - iW + 1
                     IN  IF k \in 1 .. Len(bytes) THEN bytes[k] ELSE ring[i]]

\* outputHdlcOpen, outputHdlcWrite and outputHdlcClose: the index wraps, and
\* nobody looks where the reader is.
Overwritten(bytes) ==
    [i \in Index |-> LET k == ((i - iW) % RingSize) + 1
                     IN  IF k <= Len(bytes) THEN bytes[k] ELSE ring[i]]

Overruns(bytes) == unread + Len(bytes) >= RingSize

Write(bytes, taken) ==
    /\ ring' = Overwritten(bytes)
    /\ iW' = (iW + Len(bytes)) % RingSize
    /\ unread' = (IF unread + Len(bytes) > RingSize
                  THEN (unread + Len(bytes)) % RingSize
                  ELSE unread + Len(bytes)) - taken

\* The manager has bytes of a frame that what comes next does not complete.
HalfRead ==
    /\ readBuf # <<>>
    /\ Len(readBuf) < Body \/ (unread > 0 /\ ring[iR] # Flag)

\* What an overrun, or another frame in the middle of one, may damage.
Excuse(bytes, torn) ==
    /\ lost' = lost \cup (IF Overruns(bytes) THEN InRing \cup InHand \cup ReportsIn(bytes) ELSE {})
                    \cup (IF torn THEN ReportsIn(<<ring[iR]>>) ELSE {})
    /\ disturbed' = (disturbed \/ Overruns(bytes) \/ torn)

-----------------------------------------------------------------------------
(* The manager: captureByte, closeFrame and checkBuffer.                   *)

Poll == IF polled < queued
        THEN polled' = polled + 1 /\ line' = line \o CommandBytes(polled + 1)
        ELSE UNCHANGED <<polled, line>>

\* The CRC is not checked: what lies between two flags is a frame, and its
\* first byte says of which type.  A piece of a frame may begin with an R.
CloseFrame ==
    \/ /\ readBuf = BodyOf(Request)
       /\ Poll
       /\ UNCHANGED <<got, garbled>>
    \/ /\ \E n \in Status .. Reports :
              /\ readBuf = BodyOf(n)
              /\ got' = IF n = Status THEN got ELSE Append(got, n)
       /\ UNCHANGED <<polled, line, garbled>>
    \/ /\ \A n \in Status .. Request : readBuf # BodyOf(n)
       /\ garbled' = TRUE
       /\ Poll \/ UNCHANGED <<polled, line>>
       /\ UNCHANGED got

CaptureByte(b) ==
    \/ /\ b # Flag
       /\ readBuf' = Append(readBuf, b)
       /\ UNCHANGED <<polled, line, got, garbled>>
    \/ /\ b = Flag /\ readBuf = <<>>
       /\ UNCHANGED <<manager, line>>
    \/ /\ b = Flag /\ readBuf # <<>>
       /\ CloseFrame
       /\ readBuf' = <<>>

\* sendToBuffer, by any of the manager's threads.
SendToBuffer ==
    /\ queued < Len(Commands)
    /\ queued' = queued + 1
    /\ UNCHANGED <<mode, output, iR, filled, reqIdx, input, txPending, slot, room, manager,
                   line, printed, executed, excuses, missed, spoiled>>

-----------------------------------------------------------------------------
(* Output and input of the mote.                                           *)

\* openserial_printData and its sisters, called by a task.
PrintReport ==
    /\ printed < Reports
    /\ printed' = printed + 1
    /\ Write(FrameOf(printed + 1), 0)
    /\ Excuse(FrameOf(printed + 1), FALSE)
    /\ filled' = TRUE
    /\ UNCHANGED <<mode, iR, reqIdx, input, txPending, slot, room, manager,
                   queued, line, executed, missed, spoiled>>

\* Mutant: the index wraps as those of the ring do, and the request is sent again
\* and again.
RequestIndexWrapped == (reqIdx + 1) % Len(ReqFrame)

RequestIndex == reqIdx + 1

\* isr_openserial_tx in MODE_INPUT: the next byte of the request frame.
SendRequest ==
    /\ txPending /\ mode = "input"
    /\ reqIdx' = RequestIndex
    /\ \/ /\ reqIdx' < Len(ReqFrame)
          /\ CaptureByte(ReqFrame[reqIdx' + 1])
          /\ UNCHANGED txPending
       \/ /\ reqIdx' >= Len(ReqFrame)
          /\ txPending' = FALSE
          /\ UNCHANGED <<manager, line>>
    /\ UNCHANGED <<mode, output, iR, filled, input, slot, room, queued,
                   printed, executed, excuses, missed, spoiled>>

\* isr_openserial_tx in MODE_OUTPUT: the next byte of the ring.  Equal indices
\* are taken for an empty ring.
SendOutput ==
    /\ txPending /\ mode = "output" /\ room > 0
    /\ \/ /\ iW = iR
          /\ filled' = FALSE
          /\ txPending' = FALSE
          /\ unread' = 0
          /\ UNCHANGED <<iR, room, manager, line>>
       \/ /\ iW # iR
          /\ CaptureByte(ring[iR])
          /\ iR' = (iR + 1) % RingSize
          /\ room' = room - 1
          /\ unread' = unread - 1
          /\ UNCHANGED <<filled, txPending>>
    /\ UNCHANGED <<mode, ring, iW, reqIdx, input, slot, queued,
                   printed, executed, excuses, missed, spoiled>>

\* openserial_stop, as far as it changes the input.
Stopped == busy' = FALSE /\ inBuf' = <<>>

\* The beginning of a slot stops the serial line, and starts it again in idle
\* and serial slots.  A command that is coming in is lost, with an error frame.
StopAnd(printing, taken, torn) ==
    LET bytes == (IF busy THEN FrameOf(Status) ELSE <<>>) \o printing
    IN  /\ Write(bytes, taken)
        /\ Excuse(bytes, torn)
        /\ filled' = (filled \/ bytes # <<>>)
        /\ Stopped
        /\ missed' = missed \cup {inBuf[i].c : i \in DOMAIN inBuf}
        /\ UNCHANGED <<lastFlag, escaping, queued, printed, executed, spoiled>>

Silence ==
    /\ StopAnd(<<>>, 0, FALSE)
    /\ mode' = "off"
    /\ txPending' = FALSE
    /\ UNCHANGED <<iR, reqIdx, room, manager, line>>

\* openserial_startOutput prints a status and writes the first byte of the ring.
StartOutput ==
    /\ StopAnd(FrameOf(Status), 1, FALSE)
    /\ mode' = "output"
    /\ txPending' = TRUE
    /\ CaptureByte(ring'[iR])
    /\ iR' = (iR + 1) % RingSize
    /\ room' = SlotBytes - 1
    /\ UNCHANGED reqIdx

\* openserial_startInput writes the first byte of the request frame, perhaps in
\* the middle of a frame the last idle slot has not finished.
StartInput ==
    /\ StopAnd(<<>>, 0, HalfRead)
    /\ mode' = "input"
    /\ txPending' = TRUE
    /\ reqIdx' = 0
    /\ CaptureByte(Flag)
    /\ UNCHANGED <<iR, room>>

\* The MAC's slot interrupt.  An idle slot lasts until the UART has sent all it
\* can, a serial slot at least as long as the request takes.
NewSlot ==
    /\ ~txPending \/ (mode = "output" /\ room = 0)
    /\ slot' = (slot % Len(Slots)) + 1
    /\ \/ Slots[slot'] = "radio"  /\ Silence
       \/ Slots[slot'] = "idle"   /\ StartOutput
       \/ Slots[slot'] = "serial" /\ StartInput

-----------------------------------------------------------------------------
(* isr_openserial_rx: a byte from the manager.                             *)

\* inputHdlcWrite.  Nothing but the next byte written ends an escape: neither the
\* end of its frame or slot nor the beginning of another does.
Written(buf, b) ==
    IF b.is = "esc" THEN buf
    ELSE Append(buf, IF escaping THEN [b EXCEPT !.is = "flipped"] ELSE b)

EscapingAfter(b) == b.is = "esc"

\* The CRC is taken for perfect: it is good of the payload the manager computed it on.
CrcGood == \E c \in 1 .. Len(Commands) : inBuf = Payload(c)

\* isr_openserial_rx calls openserial_stop, which leaves the mode; what it and the
\* handlers of commands print goes into the ring.
HaltInput(printing) ==
    /\ Stopped
    /\ mode' = "off"
    /\ txPending' = FALSE
    /\ Write(printing, 0)
    /\ Excuse(printing, HalfRead)
    /\ filled' = (filled \/ printing # <<>>)

StartsFrame(b) ==
    /\ ~busy /\ lastFlag /\ b.is # "flag"
    /\ busy' = TRUE
    /\ inBuf' = Written(<<>>, b)
    /\ escaping' = EscapingAfter(b)
    /\ spoiled' = IF escaping THEN spoiled \cup {b.c} ELSE spoiled
    /\ UNCHANGED <<mode, output, filled, txPending, executed, excuses, missed>>

\* Mutant: isr_openserial_rx does not look how full the buffer is.
ContinuesFrameUnchecked(b) ==
    /\ busy /\ b.is # "flag"
    /\ escaping' = EscapingAfter(b)
    /\ inBuf' = Written(inBuf, b)
    /\ UNCHANGED <<mode, output, filled, txPending, busy, executed, excuses, missed, spoiled>>

ContinuesFrame(b) ==
    /\ busy /\ b.is # "flag"
    /\ escaping' = EscapingAfter(b)
    /\ \/ /\ Len(Written(inBuf, b)) + 1 <= InSize
          /\ inBuf' = Written(inBuf, b)
          /\ UNCHANGED <<mode, output, filled, txPending, busy, excuses, missed>>
       \/ /\ Len(Written(inBuf, b)) + 1 > InSize
          /\ HaltInput(FrameOf(Status))
          /\ missed' = missed \cup {b.c}
    /\ UNCHANGED <<executed, spoiled>>

EndsFrame(b) ==
    /\ busy /\ b.is = "flag"
    /\ \/ /\ CrcGood
          /\ executed' = Append(executed, inBuf[1].c)
          /\ \E printing \in {<<>>, FrameOf(Status)} : HaltInput(printing)
       \/ /\ ~CrcGood
          /\ HaltInput(FrameOf(Status))
          /\ UNCHANGED executed
    /\ UNCHANGED <<escaping, missed, spoiled>>

BetweenFrames(b) ==
    /\ ~busy /\ (b.is = "flag" \/ ~lastFlag)
    /\ UNCHANGED <<mode, output, filled, txPending, busy, escaping, inBuf, executed,
                   excuses, missed, spoiled>>

\* A byte that comes in another mode than MODE_INPUT is lost.
DropsByte(b) ==
    /\ missed' = missed \cup {b.c}
    /\ UNCHANGED <<mode, output, filled, txPending, input, executed, excuses, spoiled>>

ReceiveByte ==
    /\ line # <<>>
    /\ line' = Tail(line)
    /\ LET b == Head(line)
       IN  \/ mode # "input" /\ DropsByte(b)
           \/ /\ mode = "input"
              /\ StartsFrame(b) \/ ContinuesFrame(b) \/ EndsFrame(b) \/ BetweenFrames(b)
              /\ lastFlag' = (b.is = "flag")
    /\ UNCHANGED <<iR, reqIdx, slot, room, manager, queued, printed>>

-----------------------------------------------------------------------------
SerialInit ==
    /\ mode = "off"
    /\ ring = [i \in Index |-> Flag] /\ iW = 0 /\ iR = 0
    /\ filled = FALSE
    /\ reqIdx = 0
    /\ busy = FALSE /\ lastFlag = TRUE /\ escaping = FALSE /\ inBuf = <<>>
    /\ txPending = FALSE
    /\ slot = Len(Slots) /\ room = 0
    /\ readBuf = <<>> /\ queued = 0 /\ polled = 0 /\ line = <<>>
    /\ printed = 0
    /\ got = <<>> /\ executed = <<>>
    /\ unread = 0
    /\ lost = {} /\ missed = {} /\ spoiled = {} /\ disturbed = FALSE /\ garbled = FALSE

SerialNext == SendToBuffer \/ PrintReport \/ NewSlot \/ SendRequest \/ SendOutput \/ ReceiveByte

SerialSpec == SerialInit /\ [][SerialNext]_serialVars

\* The slot timer is periodic hardware, the UART goes on, and so does the line.
SerialFairSpec ==
    /\ SerialSpec
    /\ WF_serialVars(NewSlot) /\ WF_serialVars(SendRequest) /\ WF_serialVars(SendOutput)
    /\ WF_serialVars(ReceiveByte)

-----------------------------------------------------------------------------
Increasing(s) == \A i, j \in DOMAIN s : i < j => s[i] < s[j]

SerialTypeOK ==
    /\ mode \in {"off", "input", "output"}
    /\ ring \in [Index -> Bytes] /\ iW \in Index /\ iR \in Index
    /\ unread \in 0 .. RingSize /\ (iW - iR) % RingSize = unread % RingSize
    /\ filled \in BOOLEAN /\ txPending \in BOOLEAN
    /\ reqIdx \in 0 .. Len(ReqFrame)
    /\ busy \in BOOLEAN /\ lastFlag \in BOOLEAN /\ escaping \in BOOLEAN
    /\ inBuf \in Seq(CommandByte) /\ Len(inBuf) < InSize
    /\ ~busy => inBuf = <<>>
    /\ slot \in DOMAIN Slots /\ room \in 0 .. SlotBytes
    /\ readBuf \in Seq(Bytes) /\ line \in Seq(CommandByte)
    /\ queued \in 0 .. Len(Commands) /\ polled \in 0 .. queued
    /\ printed \in 0 .. Reports /\ got \in Seq(1 .. Reports)
    /\ executed \in Seq(1 .. Len(Commands))
    /\ lost \subseteq 1 .. Reports /\ missed \subseteq 1 .. Len(Commands)
    /\ spoiled \subseteq 1 .. Len(Commands) /\ {disturbed, garbled} \subseteq BOOLEAN

\* What packageBytes ought to have escaped is not in it, and it fits.
Plain(c) == Len(Commands[c]) < InSize /\ \A k \in DOMAIN Commands[c] : Commands[c][k] = "data"

HasEscape(c) == \E k \in DOMAIN Commands[c] : Commands[c][k] = "esc"

OnItsWay == {line[i].c : i \in DOMAIN line} \cup {inBuf[i].c : i \in DOMAIN inBuf}

\* Each report is received once, whole and in its turn, or is still in the ring,
\* or was in the ring or in half when an overrun or a request frame hit it: what
\* comes after the damage arrives again.  The manager, which checks no CRC, takes
\* a frame nobody printed only after such damage.  A command is executed once and
\* in its turn, or is still on its way, or one of its bytes fell outside a
\* SERIALRX slot, or it could not be executed as it was sent, or the escape an
\* older command has left open has spoiled it.  An escape spoils no command but
\* the first that comes in after it.
FramesAccounted ==
    /\ Increasing(got) /\ Increasing(executed)
    /\ \A n \in 1 .. printed : n \in Range(got) \cup lost \cup InRing \cup InHand
    /\ garbled => disturbed
    /\ \A c \in 1 .. polled :
          Plain(c) => c \in Range(executed) \cup missed \cup spoiled \cup OnItsWay
    /\ \A c \in Range(executed) : Plain(c)
    /\ \A c \in spoiled : Plain(c) =>
          \E d \in 1 .. c - 1 :
             /\ HasEscape(d)
             /\ \A p \in d + 1 .. c - 1 : Plain(p) => p \notin Range(executed) \cup spoiled

\* The reports leave the mote in the end, and the manager gets its turns to send:
\* no request is lost, whatever frame it comes after.
SerialProgress ==
    []<>(/\ printed = Reports => 1 .. Reports \subseteq Range(got) \cup lost
         /\ queued = Len(Commands) => polled = Len(Commands))

=============================================================================
