-------------------------------- MODULE FjMem --------------------------------
(***************************************************************************)
(* The bus driver for memories of an FPGA, src/bus/fjmem.c, and the core    *)
(* that a design puts behind a data register for it, extra/fjmem.  The     *)
(* driver finds out how long the register is, where its fields are and     *)
(* which blocks of memory there are, and reads one access behind.          *)
(* Memories answer between two scans; other parts are in BYPASS.           *)
(***************************************************************************)
EXTENDS Integers, SequencesExt, TLC

CONSTANTS
    Cores,      \* [field: bits of the block field, blocks: <<[addr, data]>>]
    Others,     \* numbers of other parts in the chain
    MaxRegLen,  \* FJMEM_MAX_REG_LEN
    ByteBits,   \* 8
    Reach,      \* byte addresses 0 .. Reach - 1 are used
    Crossing    \* whether a read sequence goes on in a block of another width

FjMemAssumption ==
    /\ Others \subseteq Nat
    /\ {MaxRegLen, ByteBits, Reach} \subseteq Nat \ {0}
    /\ Crossing \in BOOLEAN
    /\ \A c \in Cores :
        /\ Len(c.blocks) \in 1 .. 2 ^ c.field
        /\ \A i \in DOMAIN c.blocks : c.blocks[i].addr > 0 /\ c.blocks[i].data > 0

VARIABLES
    core,       \* the configuration of the core, fjmem_config_pack
    others,     \* the other parts in the chain
    mem,        \* the memories: what is at a block and word
    shift_q,    \* the register, the bit next to TDO first
    instr_q,    \* the instruction in the update register
    din_q,      \* what a memory answered last
    in,         \* dr->in
    desc,       \* BLOCK_DESC
    at,         \* how far fjmem_bus_new has come: "none", "fields", "query", "ready"
    num,        \* block_num of its loop
    reading,    \* a read sequence is under way
    last,       \* LAST_ADDR
    answer      \* what the last read function returned

hw == <<mem, shift_q, instr_q, din_q>>
vars == <<core, others, hw, in, desc, at, num, reading, last, answer>>

Bit == {0, 1}
Fill(n, bit) == [i \in 1 .. n |-> bit]
Bits(n, len) == [i \in 1 .. len |-> (n \div 2 ^ (i - 1)) % 2]
Number(bits) == FoldRight(LAMBDA b, n : b + 2 * n, bits, 0)

(* Fields of a register, from a position counted from 0. *)
Field(bits, pos, len) == SubSeq(bits, pos + 1, pos + len)
Put(bits, pos, field) ==
    [i \in DOMAIN bits |-> IF i - pos \in DOMAIN field THEN field[i - pos] ELSE bits[i]]

Idle == <<0, 0, 0>>
Read == <<1, 0, 0>>
Write == <<0, 1, 0>>
Query == <<0, 1, 1>>
Marks == <<1, 1, 1>>        \* instr_detect_c

-----------------------------------------------------------------------------
(* The core. *)

Widest(c, width(_)) ==
    CHOOSE n \in {width(c.blocks[i]) : i \in DOMAIN c.blocks} :
        \A i \in DOMAIN c.blocks : width(c.blocks[i]) <= n
AddrLen(c) == Widest(c, LAMBDA b : b.addr)
DataLen(c) == Widest(c, LAMBDA b : b.data)
BlockPos == 4
AddrPos(c) == BlockPos + c.field
DataPos(c) == AddrPos(c) + AddrLen(c)
RegLen(c) == DataPos(c) + DataLen(c)

(* Process shift, in capture mode.  The bit of ack is not looked at. *)
Marked == Put(Put(Put(Fill(RegLen(core), 0), 0, Marks), BlockPos, Fill(core.field, 1)),
              DataPos(core), Fill(DataLen(core), 1))

Queried ==
    LET n == Number(Field(shift_q, BlockPos, core.field)) + 1
        none == Put(Fill(RegLen(core), 0), 0, Query)
    IN  IF n \notin DOMAIN core.blocks THEN none
        ELSE Put(Put(none, AddrPos(core), Fill(core.blocks[n].addr, 1)),
                 DataPos(core), Fill(core.blocks[n].data, 1))

Loaded ==
    CASE instr_q = Read  -> Put(Put(shift_q, 0, Read \o <<0>>), DataPos(core), din_q)
      [] instr_q = Write -> Put(shift_q, 0, Write)
      [] instr_q = Idle  -> Fill(RegLen(core), 0)
      [] instr_q = Marks -> Marked
      [] instr_q = Query -> Queried

(* The word a memory sees: it has as many address lines as words need. *)
Cell(bits) ==
    LET n == Number(Field(bits, BlockPos, core.field)) + 1
    IN  <<n - 1, Number(Field(bits, AddrPos(core), core.blocks[n].addr))>>
Selects(bits) == Number(Field(bits, BlockPos, core.field)) < Len(core.blocks)

(* Process dout and the memory behind it: the register is updated. *)
Update(bits) ==
    LET data == Field(bits, DataPos(core), DataLen(core))
    IN  /\ shift_q' = bits
        /\ instr_q' = Field(bits, 0, 3)
        /\ mem' = IF Field(bits, 0, 3) = Write /\ Selects(bits)
                  THEN LET cell == Cell(bits)
                       IN  [mem EXCEPT ![cell] = SubSeq(data, 1, core.blocks[cell[1] + 1].data)]
                  ELSE mem
        /\ din_q' = IF Field(bits, 0, 3) = Read /\ Selects(bits)
                    THEN Put(din_q, 0, mem[Cell(bits)]) ELSE din_q

(* urj_tap_chain_shift_data_registers, the output being Loaded. *)
Scan == Update(in')

-----------------------------------------------------------------------------
(* fjmem_bus_new. *)

NoDesc == [reg_len |-> 0, block_len |-> 0, addr_pos |-> 0, addr_len |-> 0, data_pos |-> 0,
           data_len |-> 0, blocks |-> <<>>]

(* fjmem_detect_reg_len: the controllers are reset, ones shifted in until   *)
(* one comes out.                                                          *)
New ==
    /\ at = "none"
    /\ LET zeros == others + RegLen(core)
           count == IF zeros < MaxRegLen THEN zeros ELSE MaxRegLen
           len   == count - others
       IN  /\ desc' = [NoDesc EXCEPT !.reg_len = len]
           /\ at' = IF len \in 1 .. MaxRegLen - 1 THEN "fields" ELSE "none"
    /\ in' = <<1>>
    /\ Update(Fill(RegLen(core), 1))
    /\ num' = 0
    /\ UNCHANGED <<core, others, reading, last, answer>>

(* The first bit from a position on that differs. *)
EndOf(bits, pos, bit) ==
    CHOOSE i \in pos .. Len(bits) :
        /\ \A k \in pos + 1 .. i : bits[k] = bit
        /\ i = Len(bits) \/ bits[i + 1] # bit

FieldsOf(bits) ==
    LET addr == EndOf(bits, BlockPos, 1)
        data == EndOf(bits, addr, 0)
    IN  [desc EXCEPT !.block_len = addr - BlockPos,
                     !.addr_pos = addr, !.addr_len = data - addr,
                     !.data_pos = data, !.data_len = EndOf(bits, data, 1) - data]

(* fjmem_detect_fields: its first scan updates all ones, its second one    *)
(* captures the marks and asks for block 0.                                *)
DetectFields ==
    /\ at = "fields"
    /\ instr_q = Marks
    /\ LET found == FieldsOf(SubSeq(Loaded, 1, desc.reg_len))
       IN  /\ desc' = found
           /\ at' = IF 0 \notin {found.block_len, found.addr_len, found.data_len}
                    THEN "query" ELSE "none"
    /\ in' = Put(Fill(desc.reg_len, 0), 0, Query)
    /\ Scan
    /\ UNCHANGED <<core, others, num, reading, last, answer>>

Ones(bits, pos, len) == EndOf(Field(bits, pos, len), 0, 1)

(* ashift: bytes of a word as a power of two, rounded down. *)
Shift(data) ==
    LET bytes == (data + ByteBits - 1) \div ByteBits
    IN  CHOOSE s \in 0 .. bytes : 2 ^ s <= bytes /\ bytes < 2 ^ (s + 1)

Ashift(data) == IF data = 0 THEN 0 ELSE Shift(data)     \* no block: not asked for

(* A slip: a wider block starts right behind the one before. *)
StartUnaligned(b, prev) == prev.start + 2 ^ (prev.addr + prev.ashift)

(* Where a block starts: behind the one before, aligned if it is larger, or *)
(* what is taken for that.                                                 *)
Start(b, prev) ==
    IF b.addr * 2 ^ b.ashift <= prev.addr * 2 ^ prev.ashift
    THEN prev.start + 2 ^ (prev.addr + prev.ashift)
    ELSE LET size == 2 ^ (b.addr + b.ashift)
         IN  size * (prev.start \div size + 1)

(* fjmem_query_blocks: one block, the next one being asked for.  A block is *)
(* put in front of the list.                                               *)
QueryBlock ==
    /\ at = "query"
    /\ in' = Put(in, BlockPos, Bits(num + 1, desc.block_len))
    /\ Scan
    /\ LET b == [num |-> num, addr |-> Ones(Loaded, desc.addr_pos, desc.addr_len),
                 data |-> Ones(Loaded, desc.data_pos, desc.data_len),
                 ashift |-> Ashift(Ones(Loaded, desc.data_pos, desc.data_len))]
           start == IF desc.blocks = <<>> THEN 0 ELSE Start(b, Head(desc.blocks))
           end   == start + 2 ^ (b.addr + b.ashift) - 1
       IN  desc' = IF b.addr > 0 /\ b.data > 0
                   THEN [desc EXCEPT !.blocks = <<b @@ [start |-> start, end |-> end]>> \o @]
                   ELSE desc
    /\ num' = num + 1
    /\ at' = IF num = 2 ^ desc.block_len - 1 THEN "ready" ELSE at
    /\ UNCHANGED <<core, others, reading, last, answer>>

(* fjmem_bus_free: an idle instruction is left. *)
Free ==
    /\ at = "ready" /\ ~reading
    /\ in' = Fill(desc.reg_len, 0)
    /\ Scan
    /\ at' = "none" /\ desc' = NoDesc
    /\ UNCHANGED <<core, others, num, reading, last, answer>>

-----------------------------------------------------------------------------
(* The access functions. *)

(* block_bus_area: the last block of the list that has the address. *)
BlocksAt(a) == {i \in DOMAIN desc.blocks : a \in desc.blocks[i].start .. desc.blocks[i].end}
InRange(a) == BlocksAt(a) # {}
BlockAt(a) ==
    desc.blocks[CHOOSE i \in BlocksAt(a) : \A k \in BlocksAt(a) : k <= i]

WordOf(a) == (a \div 2 ^ BlockAt(a).ashift) % 2 ^ BlockAt(a).addr
Located(a) == <<BlockAt(a).num, WordOf(a)>>

(* A slip: the bits of an address are only ever set. *)
AddressedOr(a) ==
    LET addr == Bits(WordOf(a), BlockAt(a).addr)
    IN  Put(Put(in, BlockPos, Bits(BlockAt(a).num, desc.block_len)), desc.addr_pos,
            [i \in DOMAIN addr |-> IF in[desc.addr_pos + i] = 1 THEN 1 ELSE addr[i]])

(* setup_address: a narrower address leaves the bits above it. *)
Addressed(a) ==
    Put(Put(in, BlockPos, Bits(BlockAt(a).num, desc.block_len)),
        desc.addr_pos, Bits(WordOf(a), BlockAt(a).addr))

Taken(b) == Field(Loaded, desc.data_pos, b.data)

ReadStart(a) ==
    /\ at = "ready" /\ ~reading
    /\ InRange(a)
    /\ in' = Put(Addressed(a), 0, Read)
    /\ Scan
    /\ last' = a /\ reading' = TRUE
    /\ UNCHANGED <<core, others, desc, at, num, answer>>

ReadNext(a) ==
    /\ at = "ready" /\ reading
    /\ InRange(a)
    /\ Crossing \/ BlockAt(a).data = BlockAt(last).data
    /\ in' = Addressed(a)
    /\ Scan
    /\ answer' = Taken(BlockAt(a))
    /\ last' = a
    /\ UNCHANGED <<core, others, desc, at, num, reading>>

ReadEnd ==
    /\ at = "ready" /\ reading
    /\ in' = Put(in, 0, Idle)
    /\ Scan
    /\ answer' = Taken(BlockAt(last))
    /\ reading' = FALSE
    /\ UNCHANGED <<core, others, desc, at, num, last>>

(* Nobody writes within a read sequence. *)
WriteWord(a, d) ==
    /\ at = "ready" /\ ~reading
    /\ InRange(a)
    /\ in' = Put(Put(Addressed(a), desc.data_pos, Bits(d, BlockAt(a).data)), 0, Write)
    /\ Scan
    /\ last' = a
    /\ UNCHANGED <<core, others, desc, at, num, reading, answer>>

(* Out of range: an error, but read_start keeps the address.  Users do not *)
(* read on beyond the last block.                                          *)
Refuse(a) ==
    /\ at = "ready" /\ ~reading
    /\ ~InRange(a)
    /\ last' \in {last, a}
    /\ UNCHANGED <<core, others, hw, in, desc, at, num, reading, answer>>

-----------------------------------------------------------------------------
Locations(c) == UNION {{i - 1} \X (0 .. 2 ^ c.blocks[i].addr - 1) : i \in DOMAIN c.blocks}

Init ==
    /\ core \in Cores /\ others \in Others
    /\ mem = [w \in Locations(core) |-> Fill(core.blocks[w[1] + 1].data, 0)]
    /\ shift_q = Fill(RegLen(core), 0) /\ instr_q = Idle
    /\ din_q = Fill(DataLen(core), 0)
    /\ in = <<>> /\ desc = NoDesc /\ at = "none" /\ num = 0
    /\ reading = FALSE /\ last = 0 /\ answer = <<>>

Addresses == 0 .. Reach - 1

Next ==
    \/ New \/ DetectFields \/ QueryBlock \/ Free \/ ReadEnd
    \/ \E a \in Addresses :
        \/ ReadStart(a) \/ ReadNext(a) \/ Refuse(a)
        \/ \E d \in 0 .. 2 ^ DataLen(core) - 1 : WriteWord(a, d)

Spec == Init /\ [][Next]_vars

-----------------------------------------------------------------------------
(* The fields and the blocks that were found are those of the core,        *)
(* whatever was in the registers and however many parts there are; and a   *)
(* block is "a consecutive memory range" which "represents a single memory *)
(* component in the system" (extra/fjmem/README): its words are at         *)
(* consecutive addresses from where it starts, and nobody else's.          *)
LayoutFound ==
    at = "ready" =>
        /\ [desc EXCEPT !.blocks = <<>>] =
               [reg_len |-> RegLen(core), block_len |-> core.field,
                addr_pos |-> AddrPos(core), addr_len |-> AddrLen(core),
                data_pos |-> DataPos(core), data_len |-> DataLen(core), blocks |-> <<>>]
        /\ [i \in DOMAIN desc.blocks |->
               [addr |-> desc.blocks[i].addr, data |-> desc.blocks[i].data]] =
           Reverse(core.blocks)
        /\ \A i \in DOMAIN desc.blocks :
               LET b == desc.blocks[i]
               IN  \A w \in 0 .. 2 ^ b.addr - 1 :
                      Located(b.start + w * 2 ^ b.ashift) = <<b.num, w>>

(* Only a write writes: what it puts in the register is then at the word of *)
(* its address.                                                            *)
Stores ==
    IF at' = "ready" /\ Field(in', 0, 3) = Write
    THEN LET datum == Field(in', desc.data_pos, BlockAt(last').data)
         IN  InRange(last') => mem' = [mem EXCEPT ![Located(last')] = datum]
    ELSE mem' = mem

(* The access functions keep what doc/UrJTAG.txt:1387-1434 says of a bus,  *)
(* the data of a read coming with the scan that asks for the next, and      *)
(* nothing but a write writes.                                             *)
Nowhere == <<>>
Memory == INSTANCE BusMemory WITH
    Address <- UNION {Locations(c) : c \in Cores}, contents <- mem,
    addressed <- IF reading THEN Located(last) ELSE Nowhere
FjMemorySpec == Memory!Spec /\ [][Stores]_vars
=============================================================================
