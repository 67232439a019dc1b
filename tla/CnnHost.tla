------------------------------ MODULE CnnHost ------------------------------
(***************************************************************************)
(* The host protocol: the Matlab functions of func_fpga and the firmware's *)
(* command loop (main.c), joined by a UART without framing, checksum or    *)
(* flow control.  A session of the host is uart_start, fpga_run_algorithm  *)
(* and fpga_get_template, as in spartan6_run.m.                            *)
(*                                                                         *)
(* A byte has Base values (256), a word two bytes.  What the algorithms    *)
(* compute is left open here: CnnSystem has their I/O, CnnProcessor and    *)
(* CnnLearning their results.                                              *)
(***************************************************************************)
EXTENDS Integers, Sequences

CONSTANTS
  Base,           \* values of a byte
  Sessions,       \* what the user may run: header, algorithm and images (signed pixels)
  ResultRows,     \* results of an algorithm are prefixes of these pixel sequences
  ErrorRows,      \* error values: sequences of signed 32-bit words (19 in the code)
  TemplateRows,   \* templates: sequences of signed words (21 in the code)
  TemplateNos,    \* indices of the array templates
  InitHeader,     \* init_image and init_cnn
  InitTemplates,  \* template_init.txt
  PlaneCount,     \* image planes (20)
  PlaneMax,       \* largest plane, in pixels, that the heap can hold
  MaxFaults       \* bound: faults in a behaviour

None == -1   \* the receive register is empty

VARIABLES
  hpc, config, got, received, outcome, hostIn,         \* host
  toFpga, rx, out,                                     \* the line in each direction
  fpc, in, head, planes, errors, templates,            \* firmware
  faults, clean                                        \* history

host == <<hpc, config, got, received, outcome>>
memory == <<head, planes, errors, templates>>
vars == <<hpc, config, got, received, outcome, hostIn, toFpga, rx, out,
          fpc, in, head, planes, errors, templates, faults, clean>>

Word == Base * Base
Long == Word * Word
Byte == 0..Base-1

Area(d) == d.width * d.height

SignedRange(range) == -(range \div 2)..range \div 2 - 1

\* All error values have one length, and all templates.
ErrorLen == Len(CHOOSE e \in ErrorRows : TRUE)
TemplateLen == Len(CHOOSE t \in TemplateRows : TRUE)

ASSUME HostAssumption ==
  /\ Base \in Nat /\ Base >= 6 /\ Base % 2 = 0
  /\ PlaneCount \in 3..Base /\ PlaneMax \in Nat /\ MaxFaults \in Nat
  /\ ErrorRows # {} /\ ErrorLen \in Nat \ {0}
  /\ ErrorRows \subseteq [1..ErrorLen -> SignedRange(Long)]
  /\ TemplateRows # {} /\ TemplateLen \in Nat \ {0} /\ TemplateNos \subseteq 0..Word-1
  /\ TemplateRows \subseteq [1..TemplateLen -> SignedRange(Word)]
  /\ InitTemplates \in [TemplateNos -> [1..TemplateLen -> SignedRange(Word)]]
  /\ \A row \in ResultRows : row \in Seq(Int) /\ Len(row) >= PlaneMax
  /\ InitHeader \in [width : 0..Word-1, height : 0..Word-1, Ts : 0..Word-1,
                     iter_cnt : 0..Word-1, template_no : 0..Word-1,
                     learn_loop : 0..Word-1, learn_rate : 0..Word-1]
  /\ Area(InitHeader) <= PlaneMax
  /\ \A s \in Sessions :
       /\ {s.width, s.height, s.iter, s.learn_loop} \subseteq 0..Word-1
       /\ {s.Ts, s.learn_rate} \subseteq 0..Word \div 2 - 1
       /\ s.template_no \in TemplateNos /\ s.alg \in 1..5
       /\ Area(s) <= PlaneMax
       /\ \A i \in {"x_0", "u", "y_ideal"} : s.images[i] \in [1..Area(s) -> Int]
       /\ 4 * ErrorLen <= 2 * Area(s) /\ 2 * TemplateLen <= 2 * Area(s)
-----------------------------------------------------------------------------
HighByteRounded(v) == ((2 * v + Base) \div (2 * Base)) % Base   \* mutant

\* bitand(int16(floor(v/2^8)),255) for a double v, and the shift and mask of the firmware.
HighByte(v) == (v \div Base) % Base

\* The same text for an int16: Matlab rounds an integer quotient before floor sees it.
HighByteInt16(v) == ((2 * v + Base) \div (2 * Base)) % Base

Int16Bytes(v) == <<HighByteInt16(v), v % Base>>

WordBytes(ws) ==
  [k \in 1..2*Len(ws) |-> IF k % 2 = 1 THEN HighByte(ws[(k + 1) \div 2])
                                       ELSE ws[k \div 2] % Base]

\* A long is sent as its high and its low word.
LongBytes(ws) ==
  WordBytes([k \in 1..2*Len(ws) |-> IF k % 2 = 1 THEN ws[(k + 1) \div 2] \div Word
                                                 ELSE ws[k \div 2] % Word])

Unsigned(bs, k) == bs[k] * Base + bs[k + 1]

SignedUncast(v, range) == v                                   \* mutant

\* typecast of an unsigned to a signed integer of the same width.
Signed(v, range) == IF v >= range \div 2 THEN v - range ELSE v

SignedWords(bs) == [k \in 1..Len(bs) \div 2 |-> Signed(Unsigned(bs, 2 * k - 1), Word)]

SignedLongs(bs) ==
  [k \in 1..Len(bs) \div 4 |->
     Signed(Unsigned(bs, 4 * k - 3) * Word + Unsigned(bs, 4 * k - 1), Long)]

ToWords(ws) == [k \in 1..Len(ws) |-> ws[k] % Word]
-----------------------------------------------------------------------------
NothingReceived == [image |-> <<>>, error |-> <<>>, template |-> <<>>]

\* calloc: all planes zero.
Allocated(d) == [p \in 0..PlaneCount-1 |-> [k \in 1..Area(d) |-> 0]]

Init ==
  /\ hpc = "idle" /\ config \in Sessions /\ got = <<>>
  /\ received = NothingReceived /\ outcome = "none" /\ hostIn = <<>>
  /\ toFpga = <<>> /\ rx = None /\ out = <<>>
  /\ fpc = "read" /\ in = <<>> /\ head = InitHeader /\ planes = Allocated(InitHeader)
  /\ errors = <<>> /\ templates = InitTemplates
  /\ faults = 0 /\ clean = FALSE
-----------------------------------------------------------------------------
(***************************************************************************)
(* The firmware.  in holds the bytes taken since the top of the main loop; *)
(* a command takes effect when its last byte is there.  (Nothing looks at  *)
(* a header or a plane that is partly received.)  While the firmware       *)
(* allocates, calculates or waits for the transmitter it does not read.    *)
(***************************************************************************)
Needed ==
  CASE in[1] = 0 -> 15
    [] in[1] = 1 -> IF Len(in) < 2 THEN 2 ELSE 2 + 2 * Area(head)
    [] in[1] \in {2, 3} -> 2
    [] in[1] = 5 -> 3
    [] OTHER -> 1

Complete == in # <<>> /\ Len(in) = Needed

Busy == fpc # "read" \/ Len(out) > 1

\* uart_read: the next byte of a command.
UartRead ==
  /\ ~Busy /\ rx # None /\ ~Complete
  /\ in' = Append(in, rx) /\ rx' = None
  /\ UNCHANGED <<host, hostIn, toFpga, out, fpc, memory, faults, clean>>

Command(cmd) == ~Busy /\ Complete /\ in[1] = cmd

\* Back to the top of the main loop.
Return == in' = <<>>

Fields(iter_cnt) ==
  [width |-> Unsigned(in, 2), height |-> Unsigned(in, 4), Ts |-> Unsigned(in, 6),
   iter_cnt |-> iter_cnt, template_no |-> Unsigned(in, 10),
   learn_loop |-> Unsigned(in, 12), learn_rate |-> Unsigned(in, 14)]

HeaderSigned == Fields(Unsigned(in, 8) - 1)                   \* mutant

\* The header received, iter_cnt being one less in 16 unsigned bits.
Header == Fields((Unsigned(in, 8) - 1) % Word)

(***************************************************************************)
(* malloc's result is not checked: planes beyond the memory end in writes  *)
(* through a null pointer, after which nothing is known but that the loop  *)
(* does not come back.                                                     *)
(***************************************************************************)
Allocate ==
  IF Area(Header) > PlaneMax THEN fpc' = "wild" /\ UNCHANGED <<head, planes>>
  ELSE fpc' = "header" /\ head' = Header /\ planes' = Allocated(Header)

HeaderReadEarlyAck ==                                         \* mutant
  /\ Command(0) /\ Allocate /\ out' = Append(out, 1)
  /\ UNCHANGED <<host, hostIn, toFpga, rx, in, errors, templates, faults, clean>>

\* header_read up to the allocation of the planes.
HeaderRead ==
  /\ Command(0) /\ Allocate
  /\ UNCHANGED <<host, hostIn, toFpga, rx, in, out, errors, templates, faults, clean>>

\* The end of header_read: uart_write(1).
HeaderAck ==
  /\ fpc = "header" /\ Len(out) <= 1
  /\ fpc' = "read" /\ out' = Append(out, 1) /\ Return
  /\ UNCHANGED <<host, hostIn, toFpga, rx, memory, faults, clean>>

\* image_read; a plane number beyond the array is a wild write.
ImageRead ==
  /\ Command(1) /\ Return
  /\ IF in[2] < PlaneCount
     THEN /\ planes' = [planes EXCEPT ![in[2]] =
                          [k \in 1..Area(head) |-> Unsigned(in, 2 * k + 1)]]
          /\ fpc' = fpc
     ELSE fpc' = "wild" /\ planes' = planes
  /\ UNCHANGED <<host, hostIn, toFpga, rx, out, head, errors, templates, faults, clean>>

\* algorithm_run: the five algorithms begin with uart_write(2).
AlgorithmRun ==
  /\ Command(2)
  /\ IF in[2] \in 1..5
     THEN fpc' = "calc" /\ out' = Append(out, 2) /\ in' = in
     ELSE Return /\ UNCHANGED <<fpc, out>>
  /\ UNCHANGED <<host, hostIn, toFpga, rx, memory, faults, clean>>

\* What each algorithm learns (algorithm3 and 5: template 1; algorithm4: 1 and 2).
Learned(alg) == CASE alg \in {3, 5} -> {1} [] alg = 4 -> {1, 2} [] OTHER -> {}

(***************************************************************************)
(* The end of an algorithm: its result is in plane 1, and uart_write(2).   *)
(* (Planes 3 and 4 of algorithm2 are scratch, filled before they are used.)*)
(***************************************************************************)
AlgorithmEnd ==
  /\ fpc = "calc" /\ Len(out) <= 1
  /\ \E row \in ResultRows :
       planes' = [planes EXCEPT ![1] = ToWords(SubSeq(row, 1, Area(head)))]
  /\ \E t \in [TemplateNos -> TemplateRows] :
       templates' = [n \in TemplateNos |-> IF n \in Learned(in[2]) THEN t[n] ELSE templates[n]]
  /\ fpc' = "read" /\ out' = Append(out, 2) /\ Return
  /\ UNCHANGED <<host, hostIn, toFpga, rx, head, errors, faults, clean>>

ImageSend ==
  /\ Command(3) /\ Return
  /\ IF in[2] < PlaneCount
     THEN out' = out \o WordBytes(planes[in[2]]) /\ fpc' = fpc
     ELSE fpc' = "wild" /\ out' = out
  /\ UNCHANGED <<host, hostIn, toFpga, rx, memory, faults, clean>>

\* error_send, with the values error_get takes from the processor's sums.
ErrorSend ==
  /\ Command(4) /\ Return
  /\ errors' \in ErrorRows /\ out' = out \o LongBytes(errors')
  /\ UNCHANGED <<host, hostIn, toFpga, rx, fpc, head, planes, templates, faults, clean>>

\* A number beyond the array reads some words that are not a template.
TemplateSend ==
  /\ Command(5) /\ Return
  /\ LET no == Unsigned(in, 2)
     IN \E row \in IF no \in TemplateNos THEN {templates[no]} ELSE TemplateRows :
          out' = out \o WordBytes(row)
  /\ UNCHANGED <<host, hostIn, toFpga, rx, fpc, memory, faults, clean>>

IgnoreCommand ==
  /\ ~Busy /\ Complete /\ in[1] > 5 /\ Return
  /\ UNCHANGED <<host, hostIn, toFpga, rx, out, fpc, memory, faults, clean>>

Firmware ==
  \/ UartRead \/ HeaderRead \/ HeaderAck \/ ImageRead \/ AlgorithmRun \/ AlgorithmEnd
  \/ ImageSend \/ ErrorSend \/ TemplateSend \/ IgnoreCommand
-----------------------------------------------------------------------------
(***************************************************************************)
(* The UART.  The receiver holds one byte.  A firmware that is not busy    *)
(* takes it before the next has arrived; if it is busy for longer, Overrun.*)
(***************************************************************************)
ToBoard ==
  /\ toFpga # <<>> /\ (rx = None \/ fpc = "wild")
  /\ rx' = Head(toFpga) /\ toFpga' = Tail(toFpga)
  /\ UNCHANGED <<host, hostIn, out, fpc, in, memory, faults, clean>>

InputBufferSize == 2 * Area(config)

\* A byte that finds Matlab's input buffer full is lost.
ToHost ==
  /\ out # <<>> /\ out' = Tail(out)
  /\ hostIn' = IF Len(hostIn) < InputBufferSize THEN Append(hostIn, Head(out)) ELSE hostIn
  /\ UNCHANGED <<host, toFpga, rx, fpc, in, memory, faults, clean>>
-----------------------------------------------------------------------------
(***************************************************************************)
(* The host.  fwrite returns when its bytes have been sent, so between two *)
(* steps of the script the line to the board is empty.                     *)
(***************************************************************************)
At(step) == hpc = step /\ toFpga = <<>>
KeepBoard == UNCHANGED <<rx, out, fpc, in, memory>>

\* The board waits at the top of its loop and nothing is on the way.
Quiet == fpc = "read" /\ in = <<>> /\ rx = None /\ out = <<>> /\ toFpga = <<>>

HeaderBytes(h) ==
  <<0>> \o WordBytes(<<h.width, h.height>>) \o Int16Bytes(h.Ts)
    \o WordBytes(<<h.iter, h.template_no, h.learn_loop>>) \o Int16Bytes(h.learn_rate)

(***************************************************************************)
(* uart_start, which empties the input buffer, and the bytes of            *)
(* fpga_send_header.  Nothing keeps the user from starting a session with  *)
(* a board that a failed one has left in the middle of a command; such     *)
(* starts are counted with the faults, to bound them.                      *)
(***************************************************************************)
SendHeader ==
  /\ At("idle") /\ hpc' = "header"
  /\ \E s \in Sessions : config' = s /\ toFpga' = HeaderBytes(s)
  /\ hostIn' = <<>> /\ got' = <<>> /\ received' = NothingReceived
  /\ outcome' = "none" /\ clean' = Quiet
  /\ faults' = IF Quiet THEN faults ELSE faults + 1
  /\ faults' <= MaxFaults
  /\ KeepBoard

\* The byte a step waits for, and the step that follows it.
Ack == [header |-> 1, started |-> 2, finished |-> 2]
AfterAck == [header |-> "x_0", started |-> "finished", finished |-> "image"]

\* while(fread(serial_obj,1,'uint8')~=ack)
ReadAck ==
  /\ \E step \in DOMAIN Ack :
       At(step) /\ hostIn # <<>>
       /\ hpc' = IF Head(hostIn) = Ack[step] THEN AfterAck[step] ELSE step
  /\ hostIn' = Tail(hostIn)
  /\ UNCHANGED <<config, got, received, outcome, toFpga, faults, clean>> /\ KeepBoard

type_indSwapped == [u |-> 1, x_0 |-> 0, y_ideal |-> 2]        \* mutant

type_ind == [u |-> 0, x_0 |-> 1, y_ideal |-> 2]
AfterImage == [x_0 |-> "u", u |-> "y_ideal", y_ideal |-> "calculate"]

SendImage ==
  /\ \E type \in DOMAIN type_ind :
       /\ At(type) /\ hpc' = AfterImage[type]
       /\ toFpga' = <<1, type_ind[type]>> \o WordBytes(config.images[type])
  /\ UNCHANGED <<config, got, received, outcome, hostIn, faults, clean>> /\ KeepBoard

Calculate ==
  /\ At("calculate") /\ hpc' = "started"
  /\ toFpga' = <<2, config.alg>>
  /\ UNCHANGED <<config, got, received, outcome, hostIn, faults, clean>> /\ KeepBoard

\* fpga_get_image('x_0'), fpga_get_error and fpga_get_template: the request ...
Request ==
  [image |-> <<3, type_ind["x_0"]>>, error |-> <<4>>,
   template |-> <<5>> \o WordBytes(<<config.template_no>>)]
Reading == [image |-> "read image", error |-> "read error", template |-> "read template"]
AfterRead == [image |-> "error", error |-> "template", template |-> "idle"]

\* ... the number of bytes that answer it ...
Answer ==
  [image |-> 2 * Area(config), error |-> 4 * ErrorLen,
   template |-> 2 * TemplateLen]

SendRequest ==
  /\ \E item \in DOMAIN Reading :
       At(item) /\ hpc' = Reading[item] /\ toFpga' = Request[item]
  /\ got' = <<>>
  /\ UNCHANGED <<config, received, outcome, hostIn, faults, clean>> /\ KeepBoard

\* ... and fread for each of them, put together when the last is there.
Value(item, bs) == IF item = "error" THEN SignedLongs(bs) ELSE SignedWords(bs)

ReadData ==
  /\ \E item \in DOMAIN Reading :
       LET bs == Append(got, Head(hostIn))
       IN /\ At(Reading[item]) /\ hostIn # <<>>
          /\ IF Len(bs) < Answer[item]
             THEN got' = bs /\ UNCHANGED <<hpc, received, outcome>>
             ELSE /\ got' = <<>> /\ hpc' = AfterRead[item]
                  /\ received' = [received EXCEPT ![item] = Value(item, bs)]
                  /\ outcome' = IF item = "template" /\ outcome = "none"
                                THEN "complete" ELSE outcome
  /\ hostIn' = Tail(hostIn)
  /\ UNCHANGED <<config, toFpga, faults, clean>> /\ KeepBoard

GiveUpRetries ==                                              \* mutant
  /\ toFpga = <<>> /\ hostIn = <<>> /\ out = <<>>
  /\ \/ hpc \in DOMAIN Ack /\ hpc' = hpc
     \/ hpc \in {Reading[item] : item \in DOMAIN Reading} /\ hpc' = "idle"
  /\ outcome' = "failed" /\ got' = <<>>

(***************************************************************************)
(* fread gives up after Timeout with an empty result.  The comparison of   *)
(* an empty result with an acknowledgement is not true, so the loop that   *)
(* waits for one ends as if it had come; an assignment of it to a pixel is *)
(* an error that ends the script.                                          *)
(***************************************************************************)
GiveUp ==
  /\ toFpga = <<>> /\ hostIn = <<>> /\ out = <<>>
  /\ \/ \E step \in DOMAIN Ack : hpc = step /\ hpc' = AfterAck[step]
     \/ hpc \in {Reading[item] : item \in DOMAIN Reading} /\ hpc' = "idle"
  /\ outcome' = "failed" /\ got' = <<>>

\* Nothing is on the way and the board has nothing to answer.
Timeout ==
  /\ GiveUp
  /\ fpc = "wild" \/ (fpc = "read" /\ rx = None /\ ~Complete)
  /\ UNCHANGED <<config, received, hostIn, toFpga, faults, clean>> /\ KeepBoard

Host == SendHeader \/ ReadAck \/ SendImage \/ Calculate \/ SendRequest \/ ReadData \/ Timeout
-----------------------------------------------------------------------------
Fault == faults < MaxFaults /\ faults' = faults + 1 /\ clean' = FALSE

\* An algorithm or an allocation that takes longer than Timeout.
BusyTimeout ==
  /\ Fault /\ GiveUp /\ fpc \notin {"read", "wild"}
  /\ UNCHANGED <<config, received, hostIn, toFpga, rx, out, fpc, in, memory>>

\* Of two bytes that arrive while the firmware is busy one is lost.
Overrun ==
  /\ Fault /\ Busy /\ rx # None /\ toFpga # <<>>
  /\ rx' \in {rx, Head(toFpga)} /\ toFpga' = Tail(toFpga)
  /\ UNCHANGED <<host, hostIn, out, fpc, in, memory>>

LoseToBoard ==
  /\ Fault /\ toFpga # <<>> /\ toFpga' = Tail(toFpga)
  /\ UNCHANGED <<host, hostIn, rx, out, fpc, in, memory>>

LoseToHost ==
  /\ Fault /\ out # <<>> /\ out' = Tail(out)
  /\ UNCHANGED <<host, hostIn, toFpga, rx, fpc, in, memory>>

(***************************************************************************)
(* The reset button restarts the firmware and the UART; the arrays         *)
(* templates and errors keep their contents.  In a session it is a fault.  *)
(***************************************************************************)
BoardReset ==
  /\ IF hpc = "idle" THEN clean' = FALSE /\ faults' = faults ELSE Fault
  /\ fpc' = "read" /\ in' = <<>> /\ rx' = None /\ out' = <<>>
  /\ head' = InitHeader /\ planes' = Allocated(InitHeader)
  /\ UNCHANGED <<host, hostIn, toFpga, errors, templates>>

Next ==
  \/ Host \/ Firmware \/ ToBoard \/ ToHost
  \/ BusyTimeout \/ Overrun \/ LoseToBoard \/ LoseToHost \/ BoardReset

(***************************************************************************)
(* Bytes on the line arrive, the firmware keeps executing (an algorithm    *)
(* ends: CnnSystem), and the script goes on when fread or fwrite returns.  *)
(* Nothing makes the user start a session.                                 *)
(***************************************************************************)
Fairness ==
  WF_vars(ToBoard) /\ WF_vars(ToHost) /\ WF_vars(Firmware) /\ WF_vars(Host /\ hpc # "idle")

Spec == Init /\ [][Next]_vars /\ Fairness
-----------------------------------------------------------------------------
\* Every buffer holds bytes, every plane words, and the answers signed numbers.
TypeOK ==
  /\ fpc \in {"read", "header", "calc", "wild"}
  /\ toFpga \in Seq(Byte) /\ out \in Seq(Byte) /\ hostIn \in Seq(Byte) /\ in \in Seq(Byte)
  /\ rx \in Byte \cup {None}
  /\ \A f \in DOMAIN head : head[f] \in 0..Word-1
  /\ planes \in [0..PlaneCount-1 -> [1..Area(head) -> 0..Word-1]]
  /\ outcome \in {"none", "complete", "failed"} /\ faults \in 0..MaxFaults

AfterHeader == clean /\ hpc \notin {"idle", "header"}

\* A low byte below half a byte's range: the quotient is not rounded up.
RoundsDown(v) == v % Base < Base \div 2

(***************************************************************************)
(* HeaderDelivered: when the host goes on after its header, the firmware   *)
(* has every field of it (iter_cnt less one, a zero wrapping round), the   *)
(* time step and the learning rate if their low byte does not round up.    *)
(***************************************************************************)
HeaderDelivered ==
  AfterHeader =>
    /\ head.width = config.width /\ head.height = config.height
    /\ head.iter_cnt = (config.iter - 1) % Word
    /\ head.template_no = config.template_no /\ head.learn_loop = config.learn_loop
    /\ RoundsDown(config.Ts) => head.Ts = config.Ts
    /\ RoundsDown(config.learn_rate) => head.learn_rate = config.learn_rate

(***************************************************************************)
(* TimeStepDelivered: the processor's time step is the one the host was    *)
(* given, as the Matlab reference takes it.                                *)
(***************************************************************************)
TimeStepDelivered == AfterHeader => head.Ts = config.Ts

(***************************************************************************)
(* ImagesDelivered: when an algorithm of a session without faults runs,    *)
(* the three planes hold the images the host sent, each in its place.      *)
(***************************************************************************)
ImagesDelivered ==
  clean /\ fpc = "calc" =>
    /\ in[2] = config.alg
    /\ planes[0] = ToWords(config.images.u) /\ planes[1] = ToWords(config.images.x_0)
    /\ planes[2] = ToWords(config.images.y_ideal)

(***************************************************************************)
(* ResultDelivered: a session that began with the board waiting and had no *)
(* fault ends complete, and what Matlab has is what the firmware computed. *)
(* Whatever an earlier session left behind, a reset before it is enough.   *)
(***************************************************************************)
ResultDelivered ==
  clean /\ hpc = "idle" =>
    /\ outcome = "complete"
    /\ ToWords(received.image) = planes[1] /\ received.error = errors
    /\ received.template = templates[config.template_no]
    /\ \A k \in DOMAIN received.image : received.image[k] \in SignedRange(Word)

(***************************************************************************)
(* BuffersSuffice: without flow control, nothing is on its way to a        *)
(* firmware that is not reading, and what is on its way to Matlab fits its *)
(* input buffer even if it is not read meanwhile.                          *)
(***************************************************************************)
BuffersSuffice ==
  clean =>
    /\ Busy => toFpga = <<>> /\ rx = None
    /\ Len(hostIn) + Len(out) <= InputBufferSize

(***************************************************************************)
(* HostReturns: whatever is lost, reset or late, the script ends (it is    *)
(* never left in one of its fread loops), unless the firmware has run wild.*)
(***************************************************************************)
HostReturns == []<>(hpc = "idle" \/ fpc = "wild")
=============================================================================
