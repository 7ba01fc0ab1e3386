-------------------------------- MODULE Flash --------------------------------
(* The flash commands (src/flash/flash.c) and the flash drivers they use     *)
(* (src/flash/intel.c, amd.c, amd_flash.c) against flash chips that work in  *)
(* their own time: flashmem erases the blocks a file covers, programs it and *)
(* verifies it; eraseflash, lockflash and unlockflash go block by block.     *)
(* A driver issues an operation by a sequence of writes, which the chips     *)
(* ignore while they are busy, and polls their status.  Addresses count      *)
(* words of the bus, from the first of the flash.                            *)
EXTENDS Integers, Sequences, FiniteSetsExt

CONSTANTS
    Drivers,    \* the drivers considered
    Bits,       \* the bits of a chip's word, 7 among them (DQ7)
    Regions,    \* a sequence of erase regions [blocks, size], size in words
    Chunk,      \* BSIZE, in words
    BufferSize, \* max_bytes_write, in words
    Polls,      \* how often the AMD drivers poll before they give up
    Multi,      \* whether the build and the chip's geometry have multi-byte writes
    Buffered,   \* whether the AMD chips have a write buffer that works as the S29's
    Algorithms, \* whether the detection found an Am29LV040B, which has unlock bypass
    AtZero,     \* whether the flash begins at address 0 of the bus
    Contents,   \* what the words of the chips may hold at first
    Commands,   \* how many commands are given
    Starts,     \* where commands start
    Counts,     \* how many blocks they name
    Files,      \* the files: sequences of words, the same for each chip
    Faults      \* whether operations of the chips may fail and blocks be protected

Intel == {"intel", "intel32"}

AllDrivers == Intel \cup {"amd", "amd32", "amd040"}

ASSUME FlashAssumption ==
    /\ Drivers \subseteq AllDrivers
    /\ 7 \in Bits
    /\ Regions \in Seq([blocks : Nat \ {0}, size : Nat \ {0}]) /\ Regions # << >>
    /\ {Chunk, BufferSize, Polls, Commands} \subseteq Nat \ {0}
    /\ Multi \subseteq BOOLEAN /\ Buffered \subseteq BOOLEAN /\ Faults \subseteq BOOLEAN
    /\ Algorithms \subseteq BOOLEAN /\ AtZero \subseteq BOOLEAN
    /\ Contents \subseteq SUBSET Bits
    /\ Starts \subseteq Nat /\ Counts \subseteq Nat \ {0}
    /\ Files \subseteq Seq(SUBSET Bits)

Lanes(d) == IF d \in {"intel32", "amd32"} THEN {1, 2} ELSE {1}

-----------------------------------------------------------------------------
(* Blocks *)

(* The first word and the number of the first block of a region. *)
Base[i \in Nat] ==
    IF i <= 1 THEN 0 ELSE Base[i - 1] + Regions[i - 1].blocks * Regions[i - 1].size

FirstBlock[i \in Nat] == IF i <= 1 THEN 0 ELSE FirstBlock[i - 1] + Regions[i - 1].blocks

Size == Base[Len(Regions) + 1]

Addr == 0 .. Size - 1

(* find_block: the number of the block of an address and the words left in   *)
(* it; no block beyond the last, and then flashmem keeps its limit.          *)
NoBlock == [block |-> -1, left |-> Chunk]

Found ==
    [a \in Addr |->
        LET i   == CHOOSE i \in DOMAIN Regions : Base[i] <= a /\ a < Base[i + 1]
            bir == (a - Base[i]) \div Regions[i].size
        IN [block |-> FirstBlock[i] + bir,
            left  |-> Base[i] + (bir + 1) * Regions[i].size - a]]

FindBlock(a) == IF a \in Addr THEN Found[a] ELSE NoBlock

Block(a) == FindBlock(a).block

Blocks == {Block(a) : a \in Addr}

-----------------------------------------------------------------------------
VARIABLES
    driver,     \* the flash driver
    faults,     \* whether the chips may fail
    buffered,   \* whether AMD chips have the write buffer
    algorithm,  \* var_forced_detection.algorithm: program in unlock bypass mode
    atZero,     \* whether the flash begins at address 0 of the bus
    multi,      \* max_bytes_write > 1, in a build with multi-byte writes
    bypassing,  \* var_forced_detection.unlock_bypass: the mode the chips are thought in
    chip,       \* the chips, by lane of the bus
    task,       \* the command under way, or the last one
    pc,         \* where it is
    call,       \* the call of program() under way: [at, words]
    todo,       \* what is left of it
    issued,     \* the operation issued last
    polls,      \* polls left
    erased,     \* flashmem: the blocks it erased
    content,    \* what every word of the chips held at first
    named,      \* the blocks the commands given were to change
    given       \* how many commands were given

constants == <<driver, faults, buffered, algorithm, atZero, content, named, given>>

vars == <<constants, multi, bypassing, chip, task, pc, call, todo, issued, polls, erased>>

None == [op |-> "none"]

Chips == Lanes(driver)

-----------------------------------------------------------------------------
(* The chips *)

Idle(c) == c.busy = None /\ ~c.stuck

AllIdle == \A l \in Chips : Idle(chip[l])

(* Clear Status Register. *)
Cleared == [l \in Chips |-> IF Idle(chip[l]) THEN [chip[l] EXCEPT !.sr = {}] ELSE chip[l]]

(* In unlock bypass mode an Am29LV040B programs without the unlock cycles     *)
(* and takes no other operation.                                             *)
Short == driver = "amd040" /\ algorithm

Takes(c, op) == IF op.op = "program" THEN c.bypass \/ ~Short ELSE ~c.bypass

(* The sequence of writes that starts an operation.  Intel's chips go on to  *)
(* answer reads with their status.                                           *)
Issued(chips, op) ==
    [l \in Chips |-> IF Idle(chips[l]) /\ Takes(chips[l], op)
                     THEN [chips[l] EXCEPT !.busy = op,
                               !.mode = IF driver \in Intel THEN "status" ELSE @]
                     ELSE chips[l]]

(* Read Array, or the reset of AMD's chips, which also ends a failed         *)
(* operation.                                                                *)
Reset(chips) ==
    [l \in Chips |-> IF Idle(chips[l]) THEN [chips[l] EXCEPT !.mode = "array"]
                     ELSE IF chips[l].stuck
                     THEN [chips[l] EXCEPT !.mode = "array", !.stuck = FALSE, !.busy = None]
                     ELSE chips[l]]

(* The writes that enter unlock bypass mode, and those that leave it. *)
Bypass(on) == [l \in Chips |-> IF Idle(chip[l]) THEN [chip[l] EXCEPT !.bypass = on] ELSE chip[l]]

(* readarray(): amd040's leaves unlock bypass mode first. *)
InArray == Reset(IF bypassing THEN Bypass(FALSE) ELSE chip)

(* The words an operation changes. *)
Touched(op) == IF op.op = "erase" THEN {a \in Addr : Block(a) = op.block}
               ELSE IF op.op = "program" THEN DOMAIN op.words ELSE {}

(* Erasing sets all bits, programming clears those of the datum that are 0.  *)
Changed(c, op) ==
    [c EXCEPT
        !.cells = [a \in Addr |-> IF a \notin Touched(op) THEN @[a]
                                  ELSE IF op.op = "erase" THEN Bits
                                  ELSE @[a] \cap op.words[a]],
        !.locked = IF op.op = "lock" THEN @ \cup {op.block}
                   ELSE IF op.op = "unlock" THEN @ \ {op.block} ELSE @,
        !.busy = None]

Protected(c, op) == \E a \in Touched(op) : Block(a) \in c.locked

(* An operation ends: it is done; or refused, which AMD's chips do not tell; *)
(* or it fails, which AMD's chips tell until they are reset.                 *)
ChipEnds(l) ==
    LET c == chip[l]
        failed == IF driver \in Intel
                  THEN [c EXCEPT !.sr = @ \cup {c.busy.op}, !.busy = None]
                  ELSE [c EXCEPT !.stuck = TRUE]
    IN /\ c.busy # None
       /\ ~c.stuck
       /\ \/ ~Protected(c, c.busy) /\ chip' = [chip EXCEPT ![l] = Changed(c, c.busy)]
          \/ /\ Protected(c, c.busy)
             /\ chip' = [chip EXCEPT ![l].busy = None,
                                     ![l].sr = IF driver \in Intel THEN @ \cup {"locked"} ELSE @]
          \/ faults /\ chip' = [chip EXCEPT ![l] = failed]
       /\ UNCHANGED <<constants, multi, bypassing, task, pc, call, todo, issued, polls, erased>>

-----------------------------------------------------------------------------
(* Polling: a chip without faults is done before the polls are used up. *)

(* intel.c: wait until all are ready, without limit; any error bit is one.   *)
IntelStatus(ok) ==
    /\ AllIdle
    /\ ok = (\A l \in Chips : chip[l].sr = {})

(* amdstatus: a toggling DQ6 of any chip says busy. *)
ToggleStatus(ok) ==
    \/ AllIdle /\ ok = TRUE
    \/ ~AllIdle /\ polls = 0 /\ faults /\ ok = FALSE

(* amd_29xx040_status and amd_program_buffer_status look at the first chip:  *)
(* while it is busy DQ7 is the complement of the datum's, later it is that   *)
(* of the word; DQ5 tells a failure.                                         *)
PollingStatus(a, bit7, ok) ==
    \/ Idle(chip[1]) /\ (7 \in chip[1].cells[a]) = bit7 /\ ok = TRUE
    \/ chip[1].stuck /\ ok = FALSE
    \/ Idle(chip[1]) /\ (7 \in chip[1].cells[a]) # bit7 /\ polls = 0 /\ ok = FALSE
    \/ ~Idle(chip[1]) /\ polls = 0 /\ faults /\ ok = FALSE

(* What the poll after an operation returns. *)
Status(ok) ==
    IF driver \in Intel THEN IntelStatus(ok)
    ELSE IF driver = "amd040" \/ issued.buffer THEN PollingStatus(issued.at, issued.bit7, ok)
    ELSE ToggleStatus(ok)

(* A slip: the poll does not count. *)
PollAgainForever ==
    /\ pc \in {"erasing", "programming"}
    /\ driver \notin Intel
    /\ polls > 0
    /\ ~Status(TRUE) /\ ~Status(FALSE)
    /\ UNCHANGED vars

(* A poll that says busy; only AMD's drivers count them. *)
PollAgain ==
    /\ pc \in {"erasing", "programming"}
    /\ driver \notin Intel
    /\ polls > 0
    /\ ~Status(TRUE) /\ ~Status(FALSE)
    /\ polls' = polls - 1
    /\ UNCHANGED <<constants, multi, bypassing, chip, task, pc, call, todo, issued, erased>>

-----------------------------------------------------------------------------
(* A slip: the chips are not told to leave unlock bypass mode. *)
PreparedNot(o) ==
    IF Short /\ o.op = "program" /\ ~bypassing THEN Bypass(TRUE) ELSE Cleared

(* What the drivers write before an operation: Intel's clear the status;     *)
(* amd040's leaves unlock bypass mode and resets before it erases, and       *)
(* enters that mode before it programs.                                      *)
Prepared(o) ==
    IF driver = "amd040" /\ o.op = "erase" THEN InArray
    ELSE IF Short /\ ~bypassing THEN Bypass(TRUE)
    ELSE Cleared

(* The operations of the drivers. *)
Issue(o) ==
    /\ issued' = o
    /\ chip' = Issued(Prepared(o), o)
    /\ polls' = Polls
    /\ bypassing' = (Short /\ o.op = "program")

BlockOp(name, a) == [op |-> name, block |-> Block(a), at |-> a, bit7 |-> TRUE, buffer |-> FALSE]

ProgramOp(at, words, buffer) ==
    LET n == Len(words)
    IN [op |-> "program", buffer |-> buffer, at |-> at + n - 1, bit7 |-> 7 \in words[n],
        words |-> [a \in at .. at + n - 1 |-> words[a - at + 1]]]

Finish(result) == pc' = "idle" /\ task' = [task EXCEPT !.result = result]

NoOp == [op |-> "none", buffer |-> FALSE]

NoCall == [at |-> 0, words |-> << >>]

(* What eraseflash, lockflash and unlockflash do when a block is done: note  *)
(* a failure and go on to the next.                                          *)
NextBlock(ok) ==
    /\ pc' = "block"
    /\ task' = [task EXCEPT !.next = @ + FindBlock(@).left, !.number = @ - 1,
                            !.status = IF ok THEN @ ELSE "fail"]

(* unlock_block: AMD's and lock_block of 2 x 16 bits do nothing. *)
Unlock ==
    /\ pc = "unlock"
    /\ IF driver \in Intel
       THEN /\ Issue(BlockOp("unlock", task.next))
            /\ pc' = "unlocking"
            /\ UNCHANGED task
       ELSE /\ IF task.cmd = "unlock" THEN NextBlock(TRUE) ELSE pc' = "erase" /\ UNCHANGED task
            /\ UNCHANGED <<bypassing, chip, issued, polls>>
    /\ UNCHANGED <<constants, multi, call, todo, erased>>

(* Only unlockflash looks at the result. *)
Unlocked ==
    /\ pc = "unlocking"
    /\ \E ok \in BOOLEAN :
        /\ Status(ok)
        /\ IF task.cmd = "unlock" THEN NextBlock(ok) ELSE pc' = "erase" /\ UNCHANGED task
    /\ UNCHANGED <<constants, multi, bypassing, chip, call, todo, issued, polls, erased>>

Lock ==
    /\ pc = "lock"
    /\ IF driver = "intel"
       THEN /\ Issue(BlockOp("lock", task.next))
            /\ pc' = "locking"
            /\ UNCHANGED task
       ELSE NextBlock(TRUE) /\ UNCHANGED <<bypassing, chip, issued, polls>>
    /\ UNCHANGED <<constants, multi, call, todo, erased>>

(* The check whether the block is locked has the chip identify itself, but   *)
(* reads address 0 or 1 of the bus.  The flash, when it begins there,        *)
(* answers with its manufacturer, which is not 0; what answers elsewhere may *)
(* be anything, and 0 is taken for a block that is not locked.               *)
Locked ==
    /\ pc = "locking"
    /\ \E ok, answer \in BOOLEAN :
        /\ Status(ok)
        /\ atZero => answer
        /\ NextBlock(ok /\ answer)
        /\ chip' = IF ok THEN [chip EXCEPT ![1].mode = "identifier"] ELSE chip
    /\ UNCHANGED <<constants, multi, bypassing, call, todo, issued, polls, erased>>

Erase ==
    /\ pc = "erase"
    /\ Issue(BlockOp("erase", task.next))
    /\ pc' = "erasing"
    /\ UNCHANGED <<constants, multi, task, call, todo, erased>>

(* erase_block returns, AMD's with the chips reset.  flashmem goes on.       *)
Erased ==
    /\ pc = "erasing"
    /\ \E ok \in BOOLEAN :
        /\ Status(ok)
        /\ IF task.cmd = "erase" THEN NextBlock(ok) /\ UNCHANGED erased
           ELSE pc' = "program" /\ erased' = erased \cup {issued.block} /\ UNCHANGED task
    /\ chip' = IF driver \in Intel THEN chip ELSE InArray
    /\ bypassing' = FALSE
    /\ UNCHANGED <<constants, multi, call, todo, issued, polls>>

-----------------------------------------------------------------------------
(* program() *)

UsesBuffer == multi /\ driver \in {"intel", "amd"}

(* A word at a time: it starts and is waited for. *)
ProgramWord ==
    /\ pc = "program" /\ todo.words # << >> /\ ~UsesBuffer
    /\ Issue(ProgramOp(todo.at, <<Head(todo.words)>>, FALSE))
    /\ todo' = [at |-> todo.at + 1, words |-> Tail(todo.words)]
    /\ pc' = "programming"
    /\ UNCHANGED <<constants, multi, task, call, erased>>

(* A buffer of words up to the next multiple of its size.  Intel's clears    *)
(* the status when the one before may be under way, and waits before the     *)
(* next one only until the chip takes it.                                    *)
ClearStatus ==
    /\ pc = "program" /\ todo.words # << >> /\ UsesBuffer /\ driver \in Intel
    /\ chip' = Cleared
    /\ pc' = "buffer"
    /\ UNCHANGED <<constants, multi, bypassing, task, call, todo, issued, polls, erased>>

ProgramBuffer ==
    LET n     == Min({BufferSize - (todo.at % BufferSize), Len(todo.words)})
        start == ProgramOp(todo.at, SubSeq(todo.words, 1, n), TRUE)
    IN /\ \/ pc = "buffer" /\ AllIdle
          \/ pc = "program" /\ todo.words # << >> /\ UsesBuffer /\ driver \notin Intel
       /\ issued' = start
       /\ chip' = IF driver \in Intel \/ buffered THEN Issued(chip, start) ELSE chip
       /\ polls' = Polls
       /\ todo' = [at |-> todo.at + n, words |-> SubSeq(todo.words, n + 1, Len(todo.words))]
       /\ pc' = IF driver \in Intel /\ todo'.words # << >> THEN "program" ELSE "programming"
       /\ UNCHANGED <<constants, multi, bypassing, task, call, erased>>

Programmed ==
    /\ pc = "programming"
    /\ Status(TRUE)
    /\ pc' = "program"
    /\ UNCHANGED <<constants, multi, bypassing, chip, task, call, todo, issued, polls, erased>>

(* AMD's try it word by word when the buffer does not work. *)
ProgramFails ==
    /\ pc = "programming"
    /\ Status(FALSE)
    /\ IF issued.buffer /\ driver \notin Intel
       THEN /\ multi' = FALSE
            /\ todo' = call
            /\ pc' = "program"
            /\ UNCHANGED task
       ELSE Finish("fail") /\ UNCHANGED <<multi, todo>>
    /\ UNCHANGED <<constants, bypassing, chip, call, issued, polls, erased>>

-----------------------------------------------------------------------------
(* The commands *)

NoTask == [cmd |-> "none", at |-> 0, next |-> 0, file |-> << >>, verify |-> FALSE, pos |-> 0,
           eof |-> FALSE, count |-> 0, number |-> 0, status |-> "ok", result |-> "none"]

(* The blocks a command may change. *)
NamedBlocks(t) ==
    CASE t.cmd = "flashmem" ->
            {Block(a) : a \in {a \in Addr : t.at <= a /\ a < t.at + Len(t.file)}}
      [] t.cmd \in {"erase", "lock", "unlock"} -> Block(t.at) .. Block(t.at) + t.count - 1
      [] OTHER -> {}

(* A command begins with set_flash_driver, whose print_info has the chips    *)
(* identify themselves and resets them; Intel's clear the status first.  A   *)
(* chip in unlock bypass mode stays there.                                   *)
Begin(t, at) ==
    /\ pc = "idle" /\ given < Commands
    /\ given' = given + 1
    /\ chip' = Reset(Cleared)
    /\ task' = t
    /\ pc' = at
    /\ erased' = {} /\ call' = NoCall /\ todo' = NoCall /\ issued' = NoOp /\ polls' = 0
    /\ named' = named \cup NamedBlocks(t)
    /\ UNCHANGED <<driver, faults, buffered, algorithm, atZero, content, multi, bypassing>>

(* urj_flashmem *)
Flashmem(a, file, verify) ==
    /\ a + Len(file) <= Size
    /\ Begin([NoTask EXCEPT !.cmd = "flashmem", !.at = a, !.next = a, !.file = file,
                            !.verify = verify], "chunk")

(* It reads up to the end of the block, erases the block if it did not yet,  *)
(* and programs what it read.                                                *)
ReadChunk ==
    LET found == FindBlock(task.next)
        want  == Min({found.left, Chunk})
        got   == Min({want, Len(task.file) - task.pos})
        words == SubSeq(task.file, task.pos + 1, task.pos + got)
    IN /\ pc = "chunk" /\ ~task.eof
       /\ task' = [task EXCEPT !.pos = @ + got, !.eof = got < want]
       /\ call' = [at |-> task.next, words |-> words]
       /\ todo' = call'
       /\ pc' = IF got = 0 THEN "chunk" ELSE IF found.block \in erased THEN "program" ELSE "unlock"
       /\ UNCHANGED <<constants, multi, bypassing, chip, issued, polls, erased>>

ChunkProgrammed ==
    /\ pc = "program" /\ todo.words = << >>
    /\ task' = [task EXCEPT !.next = todo.at]
    /\ pc' = "chunk"
    /\ UNCHANGED <<constants, multi, bypassing, chip, call, todo, issued, polls, erased>>

(* The end of the file: back to the array, and verify. *)
ReadArray ==
    /\ pc = "chunk" /\ task.eof
    /\ chip' = InArray
    /\ bypassing' = FALSE
    /\ IF task.verify THEN pc' = "verify" /\ task' = [task EXCEPT !.next = task.at]
       ELSE Finish("ok")
    /\ UNCHANGED <<constants, multi, call, todo, issued, polls, erased>>

(* What chips that do not show their array answer may be anything. *)
Matches(a) ==
    IF \A l \in Chips : chip[l].mode = "array" /\ Idle(chip[l])
    THEN {\A l \in Chips : chip[l].cells[a] = task.file[a - task.at + 1]}
    ELSE BOOLEAN

(* A slip: the last word is not compared. *)
VerifyLess ==
    /\ pc = "verify"
    /\ IF task.next >= task.at + Len(task.file) - 1 THEN Finish("ok")
       ELSE \/ TRUE \in Matches(task.next) /\ pc' = pc /\ task' = [task EXCEPT !.next = @ + 1]
            \/ FALSE \in Matches(task.next) /\ Finish("fail")
    /\ UNCHANGED <<constants, multi, bypassing, chip, call, todo, issued, polls, erased>>

Verify ==
    /\ pc = "verify"
    /\ IF task.next = task.at + Len(task.file) THEN Finish("ok")
       ELSE \/ TRUE \in Matches(task.next) /\ pc' = pc /\ task' = [task EXCEPT !.next = @ + 1]
            \/ FALSE \in Matches(task.next) /\ Finish("fail")
    /\ UNCHANGED <<constants, multi, bypassing, chip, call, todo, issued, polls, erased>>

(* urj_flasherase, urj_flashlock *)
ForBlocks(cmd, a, n) ==
    Begin([NoTask EXCEPT !.cmd = cmd, !.at = a, !.next = a, !.count = n, !.number = n], "block")

(* A slip: one block more. *)
StartBlockMore ==
    /\ pc = "block"
    /\ IF task.number < 0 THEN Finish(task.status)
       ELSE IF FindBlock(task.next) = NoBlock THEN Finish("fail")
       ELSE pc' = (IF task.cmd = "lock" THEN "lock" ELSE "unlock") /\ UNCHANGED task
    /\ UNCHANGED <<constants, multi, bypassing, chip, call, todo, issued, polls, erased>>

StartBlock ==
    /\ pc = "block"
    /\ IF task.number = 0 THEN Finish(task.status)
       ELSE IF FindBlock(task.next) = NoBlock THEN Finish("fail")
       ELSE pc' = (IF task.cmd = "lock" THEN "lock" ELSE "unlock") /\ UNCHANGED task
    /\ UNCHANGED <<constants, multi, bypassing, chip, call, todo, issued, polls, erased>>

-----------------------------------------------------------------------------
(* Intel's blocks are locked when power comes, AMD's may be protected.  The  *)
(* algorithm and the place of the flash are told apart where they matter.    *)
Init ==
    /\ driver \in Drivers
    /\ faults \in Faults
    /\ buffered \in Buffered
    /\ algorithm \in Algorithms /\ (algorithm => driver = "amd040")
    /\ atZero \in AtZero /\ (driver # "intel" => atZero)
    /\ bypassing = FALSE
    /\ multi \in Multi /\ (multi => driver \in {"intel", "amd"})
    /\ content \in Contents
    /\ \E locked \in {{}, {0}} :
        /\ driver \notin Intel /\ ~faults => locked = {}
        /\ chip = [l \in Chips |-> [cells |-> [a \in Addr |-> content], locked |-> locked, busy |-> None,
                                    stuck |-> FALSE, bypass |-> FALSE, sr |-> {}, mode |-> "array"]]
    /\ task = NoTask
    /\ pc = "idle"
    /\ call = NoCall
    /\ todo = NoCall
    /\ issued = NoOp
    /\ polls = 0
    /\ erased = {}
    /\ named = {}
    /\ given = 0

Command ==
    \/ \E a \in Starts, f \in Files, v \in BOOLEAN : Flashmem(a, f, v)
    \/ \E cmd \in {"erase", "lock", "unlock"}, a \in Starts, n \in Counts : ForBlocks(cmd, a, n)

Step ==
    \/ Unlock \/ Unlocked \/ Lock \/ Locked \/ Erase \/ Erased \/ PollAgain
    \/ ProgramWord \/ ClearStatus \/ ProgramBuffer \/ Programmed \/ ProgramFails
    \/ ReadChunk \/ ChunkProgrammed \/ ReadArray \/ Verify \/ StartBlock

Next == Command \/ Step \/ \E l \in Chips : ChipEnds(l)

(* The chips end what they do; AMD's that are at fault need not. *)
Fairness ==
    /\ WF_vars(Step)
    /\ \A l \in {1, 2} :
        WF_vars(l \in Chips /\ (driver \in Intel \/ ~faults) /\ ChipEnds(l))

Spec == Init /\ [][Next]_vars /\ Fairness

-----------------------------------------------------------------------------
(* Properties *)

(* The types of the variables. *)
TypeOK ==
    /\ pc \in {"idle", "block", "chunk", "unlock", "unlocking", "lock", "locking", "erase", "erasing",
               "program", "buffer", "programming", "verify"}
    /\ \A l \in Chips :
        /\ chip[l].cells \in [Addr -> SUBSET Bits]
        /\ chip[l].locked \subseteq Blocks
        /\ chip[l].sr \subseteq {"erase", "program", "unlock", "lock", "locked"}
        /\ chip[l].mode \in {"array", "status", "identifier"}
        /\ chip[l].stuck => chip[l].busy # None
    /\ polls \in 0 .. Polls
    /\ todo.words # << >> => todo.at + Len(todo.words) = call.at + Len(call.words)
    /\ task.result \in {"none", "ok", "fail"}

Succeeded == pc = "idle" /\ task.result = "ok"

(* What a command says it did, it did: flashmem, when it verified or nothing *)
(* failed, has left the file in all chips; eraseflash, where the chips tell  *)
(* refusals, has left the blocks erased.                                     *)
ResultTrue ==
    Succeeded =>
        /\ task.cmd = "flashmem" /\ (task.verify \/ ~faults) =>
            \A l \in Chips, i \in DOMAIN task.file : chip[l].cells[task.at + i - 1] = task.file[i]
        /\ task.cmd = "erase" /\ (driver \in Intel \/ ~faults) =>
            \A l \in Chips, a \in Addr : Block(a) \in NamedBlocks(task) => chip[l].cells[a] = Bits

(* No command, done, failed or under way, changes a word outside the blocks  *)
(* it was given, nor does an operation it left behind.                       *)
OnlyItsBlocks ==
    \A l \in Chips, a \in Addr : Block(a) \notin named => chip[l].cells[a] = content

(* With chips that do not fail a command within the flash succeeds: flashmem *)
(* leaves to program no bit that is 0 already, issues each operation in the  *)
(* mode the chips are in, polls it to its end, and finds its file.  Only the *)
(* check of intel's lockflash needs the flash at address 0 of the bus.       *)
FlawlessSucceeds ==
    pc = "idle" /\ ~faults /\ NamedBlocks(task) \subseteq Blocks
        /\ (task.cmd = "lock" /\ driver = "intel" => atZero)
    => task.result # "fail"

(* What a user takes from "locking block failed": when lockflash within the  *)
(* flash fails, some block it was to lock is not locked.                     *)
LockFailureTrue ==
    pc = "idle" /\ task.cmd = "lock" /\ task.result = "fail" /\ NamedBlocks(task) \subseteq Blocks
    => \E l \in Chips : ~(NamedBlocks(task) \subseteq chip[l].locked)

(* With chips that end their operations every command ends; AMD's drivers    *)
(* end whatever the chips do.                                                *)
CommandEnds == pc # "idle" ~> pc = "idle"
=============================================================================
