------------------------------- MODULE Detect -------------------------------
(***************************************************************************)
(* How the parts of a chain are found: the search for the length of the    *)
(* register between TDI and TDO (src/tap/discovery.c), the detection of    *)
(* parts, the parts added by hand (src/tap/detect.c) and the reset into    *)
(* BYPASS (src/tap/tap.c), on boards that may be changed in between.       *)
(* Registers are exchanged as module Chain shows they are.  Memory is      *)
(* found, and descriptions of parts are right.                             *)
(***************************************************************************)
EXTENDS Integers, SequencesExt

CONSTANTS
    Boards,         \* the chains of devices there may be, the device next to
                    \* TDO first: [ir, id], see below
    Described,      \* the identities that have a description
    IdBits,         \* 32
    PatternSize,    \* DETECT_PATTERN_SIZE
    MaxRegister,    \* DEFAULT_MAX_REGISTER_LENGTH
    Limits,         \* values of maxirlen
    OneShot,        \* URJ_CABLE_QUIRK_ONESHOT of the cable driver
    Lengths,        \* of instruction registers of parts added by hand
    MaxParts,       \* bound on the parts in the list
    MaxTotal,       \* bound on the sum of instruction lengths
    Null            \* no list of parts

Bit == {0, 1}
NoId == <<>>        \* a device without an identification register
Garbage == -1       \* what malloc left: an index beyond any list

Fill(n, bit) == [i \in 1 .. n |-> bit]

(* ir: the length of the instruction register; id: the identification,     *)
(* whose first bit is 1, or NoId.                                          *)
ASSUME DetectAssumption ==
    /\ IdBits \in Nat \ {0, 1} /\ PatternSize \in Nat \ {0} /\ MaxRegister \in Nat \ {0}
    /\ Limits \subseteq Nat /\ Lengths \subseteq Nat \ {0}
    /\ MaxParts \in Nat /\ MaxTotal \in Nat
    /\ OneShot \in BOOLEAN
    /\ \A b \in Boards : \A i \in DOMAIN b :
        /\ b[i].ir \in Nat \ {0}
        /\ b[i].id # NoId => Len(b[i].id) = IdBits /\ b[i].id[1] = 1

(* With the last pattern, all ones, only what was shifted in comes out, and *)
(* the only run of PatternSize ones there is that pattern (8 bits, and 1024 *)
(* for 2542 in the code).                                                   *)
ASSUME PatternAssumption ==
    MaxRegister <= (2 ^ PatternSize - 2) * (2 + PatternSize) + 2

VARIABLES
    board,      \* the devices on the cable
    instr,      \* the instruction each of them carries out
    reg,        \* the register between TDI and TDO, next bit out first
    path,       \* where the controllers are: "idle" (Run-Test/Idle), shifting
                \* "IR" or "DR", or "captured" (Capture-IR)
    parts,      \* chain->parts: Null or a sequence of parts
    main,       \* chain->main_part
    total,      \* chain->total_instr_len
    job,        \* how far detect has come
    faults,     \* what C leaves undefined
    last        \* how the last command ended

hw == <<board, instr, reg, path>>
chain == <<parts, main, total>>
vars == <<hw, chain, job, faults, last>>

Idle == [at |-> "idle"]

-----------------------------------------------------------------------------
(* The board. *)

IrLen(b) == FoldLeft(LAMBDA n, d : n + d.ir, 0, b)
DrOf(b, i, ins) == IF ins[i] = "IDCODE" THEN b[i].id ELSE <<0>>
CapturedDr(b, ins) == FlattenSeq([i \in DOMAIN b |-> DrOf(b, i, ins)])

(* The two lowest bits are 01 by the standard, the others are all alike.   *)
CapturesIr(b) ==
    {FlattenSeq([i \in DOMAIN b |->
        [k \in 1 .. b[i].ir |-> IF k = 1 THEN 1 ELSE IF k = 2 THEN 0 ELSE status]]) :
        status \in Bit}

(* In Test-Logic-Reset. *)
AfterReset(b) == [i \in DOMAIN b |-> IF b[i].id = NoId THEN "BYPASS" ELSE "IDCODE"]

Code(name, n) == IF name = "BYPASS" THEN Fill(n, 1) ELSE [Fill(n, 1) EXCEPT ![1] = 0]

(* What devices do after Update-IR with bits in their registers. *)
Decoded(b, bits) ==
    [i \in DOMAIN b |->
        LET before == IrLen(SubSeq(b, 1, i - 1))
            mine == SubSeq(bits, before + 1, before + b[i].ir)
        IN  IF mine = Code("BYPASS", b[i].ir) THEN "BYPASS"
            ELSE IF mine = Code("SAMPLE/PRELOAD", b[i].ir) /\ b[i].id \in Described
                 THEN "SAMPLE/PRELOAD"
            ELSE "OTHER"]

(* urj_tap_shift_register: bits in, bits out, what stays.                  *)
Out(r, in) == SubSeq(r \o in, 1, Len(in))
Kept(r, in) == SubSeq(r \o in, Len(in) + 1, Len(in) + Len(r))

-----------------------------------------------------------------------------
(* urj_tap_detect_register_size. *)

(* rpat: p in PatternSize + len bits, the low bit first. *)
Pattern(p, len) ==
    [i \in 1 .. PatternSize + len |->
        IF i <= PatternSize THEN (p \div 2 ^ (i - 1)) % 2 ELSE 0]

(* urj_tap_register_shift_right. *)
ShiftedRight(bits, n) == SubSeq(bits, n + 1, Len(bits)) \o Fill(n, 0)

(* A slip: the zeros before the pattern left out. *)
EchoNoZeros(r, p, len) ==
    [reg |-> Kept(r, Pattern(p, len)),
     ok  |-> ShiftedRight(Out(r, Pattern(p, len)), len) = Pattern(p, len)]

(* One pattern. *)
Echo(r, p, len) ==
    LET zeroed == Kept(r, Fill(len, 0))
        pattern == Pattern(p, len)
    IN  [reg |-> Kept(zeroed, pattern),
         ok  |-> ShiftedRight(Out(zeroed, pattern), len) = pattern]

(* All patterns with one length, until one does not come back. *)
Tried(r, len) ==
    LET upTo[p \in 0 .. 2 ^ PatternSize - 1] ==
            IF p = 0 THEN [reg |-> r, ok |-> TRUE]
            ELSE LET before == upTo[p - 1]
                 IN  IF before.ok THEN Echo(before.reg, p, len) ELSE before
    IN  upTo[2 ^ PatternSize - 1]

(* size: the length found, or -1; reg: what the register holds then. *)
SizeFound(r, maxlen) ==
    LET bound == IF maxlen = 0 THEN MaxRegister ELSE maxlen
        upTo[len \in 0 .. bound] ==
            IF len = 0 THEN [size |-> -1, reg |-> r]
            ELSE LET before == upTo[len - 1]
                     tried == Tried(before.reg, len)
                 IN  IF before.size # -1 THEN before
                     ELSE [size |-> IF tried.ok THEN len ELSE -1, reg |-> tried.reg]
    IN  upTo[bound]

-----------------------------------------------------------------------------
Init ==
    /\ board \in Boards
    /\ instr = AfterReset(board)
    /\ reg = <<>>
    /\ path = "idle"
    /\ parts = Null
    /\ main \in {Garbage, 0}      \* not assigned by urj_tap_chain_alloc
    /\ total = 0
    /\ job = Idle
    /\ faults = {}
    /\ last = "none"

Runs(at) == job.at = at /\ faults = {}

(* urj_tap_chain_wait_ready looks up the main part. *)
WaitReady(ps, m) ==
    faults' = IF ps # Null /\ m \notin 0 .. Len(ps) - 1
              THEN {"no main part"} ELSE {}

Ends(how) == job' = Idle /\ last' = how

(* The user changes the board and connects the cable again, which resets   *)
(* the controllers (urj_tap_cable_start).                                  *)
Connect ==
    /\ Runs("idle")
    /\ \E b \in Boards :
        /\ board' = b
        /\ instr' = AfterReset(b)
    /\ reg' = <<>>
    /\ path' = "idle"
    /\ last' = "connected"
    /\ UNCHANGED <<chain, job, faults>>

(* urj_tap_detect begins: parts are freed, the controllers reset, the      *)
(* instruction registers captured; what they hold is up to the devices.    *)
Detect(limit) ==
    /\ Runs("idle")
    /\ parts' = Null
    /\ instr' = AfterReset(board)
    /\ reg' \in [1 .. IrLen(board) -> Bit]
    /\ path' = "IR"
    /\ job' = [at |-> "ir", limit |-> limit]
    /\ last' = "none"
    /\ UNCHANGED <<board, main, total, faults>>

(* The length of the instruction registers, then BYPASS everywhere.        *)
IrSize ==
    /\ Runs("ir")
    /\ LET found == SizeFound(reg, job.limit)
       IN  IF found.size = -1
           THEN /\ reg' = found.reg
                /\ Ends("failed")
                /\ UNCHANGED <<instr, path, total>>
           ELSE LET ins == Decoded(board, Kept(found.reg, Fill(found.size, 1)))
                IN  /\ total' = found.size
                    /\ instr' = ins
                    /\ reg' = CapturedDr(board, ins)
                    /\ path' = "DR"
                    /\ job' = [at |-> "dr"]
                    /\ UNCHANGED last
    /\ UNCHANGED <<board, parts, main, faults>>

(* The number of parts, then a reset, after which parts show who they are. *)
DrSize ==
    /\ Runs("dr")
    /\ LET found == SizeFound(reg, 0)
           captured == CapturedDr(board, AfterReset(board))
           ones == Fill(IdBits * found.size, 1)
       IN  IF found.size = -1
           THEN /\ reg' = found.reg
                /\ Ends("failed")
                /\ UNCHANGED <<instr, parts>>
           ELSE /\ parts' = <<>>
                /\ instr' = AfterReset(board)
                /\ reg' = IF OneShot THEN Kept(captured, ones) ELSE captured
                /\ job' = [at |-> "parts", chlen |-> found.size, i |-> 0,
                           ids |-> IF OneShot THEN Out(captured, ones) ELSE <<>>]
                /\ UNCHANGED last
    /\ UNCHANGED <<board, path, main, total, faults>>

(* find_record: a record of an identity leads to its description. *)
HasRecord(id) == id \in Described

Part(id, ir) ==
    [id |-> id, ir |-> ir,
     active |-> IF HasRecord(id) THEN "IDCODE" ELSE "none"]

(* The instruction length of a part is in its description. *)
DescribedIr(id) ==
    IF HasRecord(id)
    THEN CHOOSE n \in {d.ir : d \in UNION {ToSet(b) : b \in Boards}} :
            \E b \in Boards : \E i \in DOMAIN b : b[i].id = id /\ b[i].ir = n
    ELSE 0

(* A slip: all bits of an identity shifted after its first. *)
ReadIdTooLong(bit, r) ==
    IF bit = 0 THEN [id |-> NoId, reg |-> r]
    ELSE LET ones == Fill(IdBits, 1)
         IN  [id |-> <<1>> \o SubSeq(Out(r, ones), 1, IdBits - 1), reg |-> Kept(r, ones)]

(* The rest of an identity, behind its first bit. *)
ReadId(bit, r) ==
    IF bit = 0 THEN [id |-> NoId, reg |-> r]
    ELSE LET ones == Fill(IdBits - 1, 1)
         IN  [id |-> <<1>> \o Out(r, ones), reg |-> Kept(r, ones)]

(* One part of the loop of urj_tap_detect_parts.                           *)
FindPart ==
    /\ Runs("parts")
    /\ job.i < job.chlen
    /\ LET one == <<1>>
           first == job.i * IdBits + 1
           read == IF OneShot
                   THEN [id |-> IF job.ids[first] = 0 THEN NoId
                                ELSE SubSeq(job.ids, first, first + IdBits - 1),
                         reg |-> reg]
                   ELSE ReadId(Out(reg, one)[1], Kept(reg, one))
       IN  /\ parts' = Append(parts, Part(read.id, DescribedIr(read.id)))
           /\ reg' = read.reg
    /\ job' = [job EXCEPT !.i = @ + 1]
    /\ UNCHANGED <<board, instr, path, main, total, faults, last>>

(* urj_part_parts_set_instruction; parts without a description have none.  *)
WithInstruction(ps, name) ==
    [i \in DOMAIN ps |->
        [ps[i] EXCEPT !.active = IF ps[i].ir > 0 THEN name ELSE "none"]]

(* A slip: the last part not shifted. *)
ShiftedInstructionsButLast(ps, ins, r) ==
    IF \E i \in DOMAIN ps : ps[i].active = "none" THEN ins
    ELSE Decoded(board, Kept(r,
            FlattenSeq([i \in 1 .. Len(ps) - 1 |-> Code(ps[i].active, ps[i].ir)])))

(* urj_tap_chain_shift_instructions, with the registers holding r, fails   *)
(* when a part has no instruction.                                         *)
ShiftedInstructions(ps, ins, r) ==
    IF \E i \in DOMAIN ps : ps[i].active = "none" THEN ins
    ELSE Decoded(board, Kept(r, FlattenSeq([i \in DOMAIN ps |-> Code(ps[i].active, ps[i].ir)])))

(* The end of urj_tap_detect: first SAMPLE/PRELOAD, whose data register    *)
(* changes nothing here, then BYPASS.                                      *)
DetectEnds ==
    /\ Runs("parts")
    /\ job.i = job.chlen
    /\ main' = Len(parts) - 1
    /\ WaitReady(parts, main')
    /\ parts' = WithInstruction(parts, "BYPASS")
    /\ \E sampled, r \in CapturesIr(board) :
        instr' = ShiftedInstructions(WithInstruction(parts, "BYPASS"),
                    ShiftedInstructions(WithInstruction(parts, "SAMPLE/PRELOAD"), instr, sampled),
                    r)
    /\ path' = "idle"
    /\ reg' = <<>>
    /\ Ends("detected")
    /\ UNCHANGED <<board, total>>

(* urj_tap_chain_shift_instructions from where the controllers are: a      *)
(* search that found nothing has left them shifting, and the clocks that   *)
(* are to capture bring them through Update to Run-Test/Idle; the clocks   *)
(* that are to leave Shift-IR end in Capture-IR.                           *)
ShiftInstructionsFrom(ps) ==
    CASE path = "idle" ->
            /\ \E r \in CapturesIr(board) : instr' = ShiftedInstructions(ps, instr, r)
            /\ UNCHANGED path
      [] path = "IR" -> instr' = Decoded(board, Kept(reg, <<0>>)) /\ path' = "captured"
      [] path = "DR" -> UNCHANGED instr /\ path' = "captured"
      [] path = "captured" ->
            /\ \E r \in CapturesIr(board) : instr' = Decoded(board, r)
            /\ UNCHANGED path

(* urj_tap_manual_add, then BYPASS for all parts (cmd_addpart_run).        *)
AddPart(n) ==
    /\ Runs("idle")
    /\ parts # Null => Len(parts) < MaxParts
    /\ total + n <= MaxTotal
    /\ total' = total + n
    /\ LET added == Append(IF parts = Null THEN <<>> ELSE parts,
                           [id |-> NoId, ir |-> n, active |-> "none"])
           ps == WithInstruction(added, "BYPASS")
       IN  /\ parts' = ps
           /\ IF \E i \in DOMAIN ps : ps[i].active = "none"
              THEN UNCHANGED <<instr, path, reg, faults>>
              ELSE ShiftInstructionsFrom(ps) /\ WaitReady(ps, main) /\ reg' = <<>>
    /\ last' = "added"
    /\ UNCHANGED <<board, main, job>>

(* A slip: as many ones as there are parts. *)
BypassBitsOnePerPart == Fill(Len(parts), 1)

BypassBits == Fill(total, 1)

(* urj_tap_reset_bypass. *)
ResetBypass ==
    /\ Runs("idle")
    /\ path' = "idle"
    /\ reg' = <<>>
    /\ last' = "reset"
    /\ IF total = 0
       THEN /\ instr' = AfterReset(board)
            /\ UNCHANGED <<parts, faults>>
       ELSE /\ \E r \in CapturesIr(board) :
                instr' = Decoded(board, Kept(r, BypassBits))
            /\ WaitReady(parts, main)
            /\ parts' = IF parts = Null THEN Null ELSE WithInstruction(parts, "BYPASS")
    /\ UNCHANGED <<board, main, total, job>>

Next ==
    \/ Connect
    \/ \E limit \in Limits : Detect(limit)
    \/ IrSize \/ DrSize \/ FindPart \/ DetectEnds
    \/ \E n \in Lengths : AddPart(n)
    \/ ResetBypass

Spec == Init /\ [][Next]_vars

-----------------------------------------------------------------------------
(* Types; the active instruction of a part is one its registers are        *)
(* described for.                                                          *)
TypeOK ==
    /\ board \in Boards
    /\ instr \in [DOMAIN board -> {"IDCODE", "BYPASS", "SAMPLE/PRELOAD", "OTHER"}]
    /\ path \in {"idle", "IR", "DR", "captured"}
    /\ parts # Null => \A i \in DOMAIN parts :
        /\ parts[i].ir \in Nat
        /\ parts[i].active \in {"none", "IDCODE", "BYPASS", "SAMPLE/PRELOAD"}
        /\ parts[i].active # "none" => parts[i].ir > 0
    /\ main \in {Garbage} \cup 0 .. MaxRegister - 1
    /\ total \in Nat

(* Whatever the registers held, the lengths found are those of the board,  *)
(* and detection fails only if they are beyond the limit (discovery.c).    *)
LengthsFound ==
    [][/\ IrSize => LET limit == IF job.limit = 0 THEN MaxRegister ELSE job.limit
                    IN  IF IrLen(board) <= limit THEN total' = IrLen(board)
                        ELSE last' = "failed"
       /\ DrSize => job'.at = "parts" /\ job'.chlen = Len(board)]_vars

(* The parts detected are those of the board, in its order: "If the device *)
(* does not provide IDCODE, then it'll be in BYPASS mode after we reset    *)
(* the state machine.  So we'll get a 0 here." (detect.c:299-301).         *)
PartsFound ==
    last = "detected" =>
        /\ Len(parts) = Len(board)
        /\ \A i \in DOMAIN parts : parts[i].id = board[i].id

(* When all parts have a description, those that detect takes to be in     *)
(* BYPASS are (detect.c:566-570).                                          *)
DetectedInBypass ==
    last = "detected" /\ (\A i \in DOMAIN board : board[i].id \in Described) =>
        \A i \in DOMAIN board : instr[i] = "BYPASS"

(* Once the lengths are known, a reset puts all devices of the board into  *)
(* BYPASS, whatever was added to the list meanwhile (tap.c:60-63).         *)
ResetIntoBypass ==
    last = "reset" /\ total >= IrLen(board) =>
        \A i \in DOMAIN board : instr[i] = "BYPASS"

(* Parts can be added by hand: "Manually add a part to the end of the      *)
(* chain." (cmd_addpart.c:87), without a look at a part that is not there. *)
AddPartWorks == faults = {}

Listed == [i \in DOMAIN parts |-> parts[i].ir]

(* "In case we do not want to detect, we can add parts manually"           *)
(* (detect.c:474): when the parts added are those of the board, all are    *)
(* in BYPASS.                                                              *)
AddedInBypass ==
    last = "added" /\ faults = {} /\ Listed = [i \in DOMAIN board |-> board[i].ir] =>
        \A i \in DOMAIN board : instr[i] = "BYPASS"
=============================================================================
