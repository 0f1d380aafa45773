------------------------------- MODULE Udynlink -------------------------------
(***************************************************************************)
(* The dynamic linker (udynlink.c) and the operations of the loader that   *)
(* use it (plc_loader.c): a program comes from a file, through elf_buffer, *)
(* or from the flash partition, is copied and relocated into RAM of the    *)
(* heap, its symbols are looked up, and the RAM is freed again.            *)
(*                                                                         *)
(* Memory is made of words.  An address is a region and an offset in it:   *)
(* the buffer, the flash, a block of the heap.  A word of a program is     *)
(* <<"image", program, offset>>, a word of its cleared data                *)
(* <<"bss", program, offset>>, a relocated word <<"ptr", region, offset>>. *)
(***************************************************************************)
EXTENDS Integers, Sequences

CONSTANTS
    Images,         \* programs: their header, relocations and symbols
    Blocks,         \* blocks the heap can have
    Required,       \* names load_plc_module looks up
    Exports,        \* names udynlink_external_resolve_symbol knows
    Env             \* what the environment may do

\* "load_over": a program is loaded over a loaded one; "flash_over": the flash
\* is written while its program is loaded; "corrupt": a damaged file is flashed,
\* or the flash written in part.
EnvNames == {"load_over", "flash_over", "corrupt"}

ASSUME UdynlinkConstants ==
    /\ Env \subseteq EnvNames
    /\ {"buffer", "flash", "null"} \cap Blocks = {}

VARIABLES
    mem,                \* mem[r]: the words of region r, a block only while it is allocated
    mod,                \* udynlink_module_t
    overrun,            \* a word outside a region was written, a block freed twice
    plc_initialized,
    ptrs,               \* the addresses the function pointers hold
    rel,                \* relocations applied
    at                  \* the statement the loader is at

vars == <<mem, mod, overrun, plc_initialized, ptrs, rel, at>>

NULL == <<"null", 0>>
Junk == <<"junk">>
Free == [p_header |-> NULL, p_ram |-> NULL, mode |-> "COPY_ALL"]

Read(a) == IF a[1] \in DOMAIN mem /\ a[2] \in DOMAIN mem[a[1]] THEN mem[a[1]][a[2]] ELSE Junk
Plus(a, n) == <<a[1], a[2] + n>>

-----------------------------------------------------------------------------
(* The layout of a program i: header, relocations, symbol table (its count *)
(* first), code, data.                                                     *)

CodeOffset(i) == 1 + 2 * Len(i.rels) + 1 + 2 * Len(i.syms)
Size(i) == CodeOffset(i) + i.code + i.data
Stored(i) == [o \in 0 .. (Size(i) - 1) |-> <<"image", i, o>>]
Damaged(i) == [Stored(i) EXCEPT ![Size(i) - 1] = Junk]
Erased == [o \in {0} |-> Junk]

\* The program whose header is at p_header; NULL has none.
Header(md) == Read(md.p_header)[2]
HasHeader(md) == Read(md.p_header) # Junk /\ Read(md.p_header)[1] = "image" /\ Read(md.p_header)[3] = 0

\* get_code_pointer, get_data_pointer
Code(md, i) == Plus(md.p_header, CodeOffset(i))

Data(md, i) ==
    IF md.mode = "XIP" THEN Plus(md.p_ram, i.lot) ELSE Plus(md.p_header, CodeOffset(i) + i.code)

\* Mutant: the cleared data is forgotten.
RamSizeNoBss(md, i) ==
    i.lot + i.data + (IF md.mode = "COPY_ALL" THEN CodeOffset(i) + i.code ELSE 0)

\* udynlink_get_ram_size
RamSize(md, i) ==
    i.lot + i.data + i.bss + (IF md.mode = "COPY_ALL" THEN CodeOffset(i) + i.code ELSE 0)

\* offset_sym
SymValue(md, i, sym) ==
    IF sym.type \in {"local", "exported"}
    THEN Plus(IF sym.location = "code" THEN Code(md, i) ELSE Data(md, i), sym.val)
    ELSE <<sym.name, 0>>

\* Writing the words w, from offset n of region r on.
Written(m, r, n, w) ==
    [m EXCEPT ![r] = [o \in DOMAIN @ |-> IF o - n \in DOMAIN w THEN w[o - n] ELSE @[o]]]
Outside(m, r, n, w) == w # <<>> /\ (r \notin DOMAIN m \/ \E k \in DOMAIN w : (n + k) \notin DOMAIN m[r])

Copied(a, n) == [k \in 0 .. (n - 1) |-> Read(Plus(a, k))]
Cleared(i, n) == [k \in 0 .. (n - 1) |-> <<"bss", i, k>>]

-----------------------------------------------------------------------------
(* load_plc_module, up to the call of udynlink_load_module                 *)

MayLoad == at = "idle" /\ (plc_initialized = 0 \/ "load_over" \in Env)

\* The file is read into elf_buffer; a damaged one fails its CRC.
LoadFile(i) ==
    /\ MayLoad
    /\ \/ /\ mem' = [mem EXCEPT !["buffer"] = Stored(i)]
          /\ mod' = [mod EXCEPT !.p_header = <<"buffer", 0>>, !.mode = "COPY_ALL"]
          /\ at' = "setup"
       \/ /\ mem' = [mem EXCEPT !["buffer"] = Damaged(i)]
          /\ UNCHANGED <<mod, at>>
    /\ UNCHANGED <<overrun, plc_initialized, ptrs, rel>>

\* Only the signature of the program in the flash is looked at.
LoadFlash ==
    /\ MayLoad
    /\ LET header == Read(<<"flash", 0>>)
       IN  header # Junk /\ header[2].sign
    /\ mod' = [mod EXCEPT !.p_header = <<"flash", 0>>, !.mode = "XIP"]
    /\ at' = "setup"
    /\ UNCHANGED <<mem, overrun, plc_initialized, ptrs, rel>>

-----------------------------------------------------------------------------
(* udynlink_load_module                                                    *)

\* The signature is checked and RAM allocated.
Setup ==
    /\ at = "setup" /\ rel' = 0
    /\ LET i == Header(mod)
       IN  \/ ~i.sign /\ at' = "fail" /\ UNCHANGED <<mem, mod>>
           \/ /\ i.sign /\ RamSize(mod, i) = 0 /\ at' = "copy"
              /\ mod' = [mod EXCEPT !.p_ram = NULL] /\ UNCHANGED mem
           \/ i.sign /\ RamSize(mod, i) > 0 /\ at' = "fail" /\ UNCHANGED <<mem, mod>>
           \/ /\ i.sign /\ RamSize(mod, i) > 0 /\ at' = "copy"
              /\ \E b \in Blocks \ DOMAIN mem :
                    /\ mod' = [mod EXCEPT !.p_ram = <<b, 0>>]
                    /\ mem' = [r \in DOMAIN mem \cup {b} |->
                                  IF r = b THEN [o \in 0 .. (RamSize(mod, i) - 1) |-> Junk] ELSE mem[r]]
    /\ UNCHANGED <<overrun, plc_initialized, ptrs>>

\* Mutant: the header of a copied module stays in the buffer.
MovedNot(i) == mod

\* Copied as a whole the module has its header in RAM, behind the LOT.
Moved(i) == IF mod.mode = "COPY_ALL" THEN [mod EXCEPT !.p_header = Plus(mod.p_ram, i.lot)] ELSE mod

\* The module, or its data, is copied behind the LOT; what it wants cleared is
\* cleared.
Copy ==
    /\ at = "copy" /\ at' = "relocate"
    /\ LET i == Header(mod)
           ram == mod.p_ram[1]
           words == IF mod.mode = "COPY_ALL" THEN Copied(mod.p_header, Size(i))
                    ELSE Copied(Plus(Code(mod, i), i.code), i.data)
           copied == IF words = <<>> THEN mem ELSE Written(mem, ram, i.lot, words)
           bss == Plus(Data(Moved(i), i), i.data)
           cleared == Cleared(i, i.bss)
       IN  /\ mem' = IF cleared = <<>> THEN copied ELSE Written(copied, bss[1], bss[2], cleared)
           /\ mod' = Moved(i)
           /\ overrun' = (overrun \/ Outside(mem, ram, i.lot, words) \/ Outside(mem, bss[1], bss[2], cleared))
    /\ UNCHANGED <<plc_initialized, ptrs, rel>>

\* Mutant: a word of the data is counted from the LOT on.
LocationFromLot(i, r) ==
    IF r.at < i.lot THEN Plus(mod.p_ram, r.at) ELSE Plus(Data(mod, i), r.at)

\* Where a relocation is applied: in the LOT or in the data.
Location(i, r) ==
    IF r.at < i.lot THEN Plus(mod.p_ram, r.at) ELSE Plus(Data(mod, i), r.at - i.lot)

Resolved(i, s) ==
    /\ s \in DOMAIN i.syms /\ i.syms[s].type # "name"
    /\ i.syms[s].type = "extern" => i.syms[s].name \in Exports

\* One pair of the relocations: an address inside the data that the compiler
\* left there is moved to where the data is, or the address of a symbol is
\* stored; a symbol that has none ends the load.
Relocate ==
    /\ at = "relocate"
    /\ LET i == Header(mod)
           r == i.rels[rel + 1]
           loc == Location(i, r)
           target == IF r.abs THEN Plus(Data(mod, i), r.sym) ELSE SymValue(mod, i, i.syms[r.sym])
           word == IF r.abs /\ (Read(loc) = Junk \/ Read(loc)[1] # "image") THEN Junk
                   ELSE <<"ptr", target[1], target[2]>>
       IN  \/ /\ rel < Len(i.rels) /\ (r.abs \/ Resolved(i, r.sym))
              /\ mem' = IF loc[1] \in DOMAIN mem THEN Written(mem, loc[1], loc[2], [k \in {0} |-> word]) ELSE mem
              /\ overrun' = (overrun \/ Outside(mem, loc[1], loc[2], [k \in {0} |-> word]))
              /\ rel' = rel + 1 /\ UNCHANGED at
           \/ /\ rel < Len(i.rels) /\ ~(r.abs \/ Resolved(i, r.sym))
              /\ at' = "fail" /\ UNCHANGED <<mem, overrun, rel>>
           \/ /\ rel = Len(i.rels)
              /\ at' = "lookup" /\ UNCHANGED <<mem, overrun, rel>>
    /\ UNCHANGED <<mod, plc_initialized, ptrs>>

\* Mutant: the header of the module is freed.
FreeHeader ==
    /\ mem' = [r \in DOMAIN mem \ {mod.p_header[1]} |-> mem[r]]
    /\ mod' = Free
    /\ UNCHANGED overrun

\* udynlink_external_free(mod.p_ram), mark_module_free(&mod)
FreeModule ==
    /\ mem' = [r \in DOMAIN mem \ {mod.p_ram[1]} |-> mem[r]]
    /\ overrun' = (overrun \/ (mod.p_ram # NULL /\ mod.p_ram[1] \notin DOMAIN mem))
    /\ mod' = Free

\* Mutant: what was allocated is not freed.
LoadFailsKeeping ==
    /\ at = "fail" /\ at' = "lookup"
    /\ mod' = Free
    /\ UNCHANGED <<mem, overrun, plc_initialized, ptrs, rel>>

LoadFails ==
    /\ at = "fail" /\ at' = "lookup"
    /\ FreeModule
    /\ UNCHANGED <<plc_initialized, ptrs, rel>>

-----------------------------------------------------------------------------
(* The rest of load_plc_module, which a failed load reaches too:           *)
(* file_loader_ret and flash_loader_ret are -1 then, not 0.                *)

\* udynlink_lookup_symbol: the first symbol with that name
Named(i, n) == {s \in DOMAIN i.syms : i.syms[s].name = n /\ \A q \in 1 .. (s - 1) : i.syms[q].name # n}
Lookup(i, n) == SymValue(mod, i, i.syms[CHOOSE s \in Named(i, n) : TRUE])
Complete(i) == \A n \in Required : Named(i, n) # {}

LookupSymbols ==
    /\ at = "lookup" /\ at' = "idle"
    /\ \/ /\ HasHeader(mod) /\ Complete(Header(mod))
          /\ ptrs' = [n \in Required |-> Lookup(Header(mod), n)]
          /\ plc_initialized' = 1
       \/ /\ ~(HasHeader(mod) /\ Complete(Header(mod)))
          /\ UNCHANGED <<ptrs, plc_initialized>>
    /\ UNCHANGED <<mem, mod, overrun, rel>>

-----------------------------------------------------------------------------
(* unload_plc_module, erase_plc_programm_flash, plc flash, for a PLC that  *)
(* is stopped (PlcRun has the rest); a reset, of which the lookup in a     *)
(* module that is not there (p_header NULL) may be the cause.              *)

Unload ==
    /\ at = "idle" /\ plc_initialized = 1 /\ plc_initialized' = 0
    /\ IF mod.p_header = NULL THEN UNCHANGED <<mem, mod, overrun>> ELSE FreeModule
    /\ UNCHANGED <<ptrs, rel, at>>

\* The flash may fail to be erased.
Erase ==
    /\ at = "idle" /\ plc_initialized' = 0
    /\ LET unload == plc_initialized = 1 /\ mod.p_header # NULL
           kept == DOMAIN mem \ (IF unload THEN {mod.p_ram[1]} ELSE {})
       IN  /\ \E flash \in {Erased, mem["flash"]} :
                 mem' = [r \in kept |-> IF r = "flash" THEN flash ELSE mem[r]]
           /\ mod' = IF unload THEN Free ELSE mod
    /\ UNCHANGED <<overrun, ptrs, rel, at>>

\* The signature of the file is checked, its CRC is not; the header may fail to be
\* written.
Flash(i) ==
    /\ at = "idle" /\ i.sign
    /\ mod.p_header[1] # "flash" \/ "flash_over" \in Env
    /\ \/ \E flash \in {Erased, Stored(i)} : mem' = [mem EXCEPT !["flash"] = flash]
       \/ "corrupt" \in Env /\ mem' = [mem EXCEPT !["flash"] = Damaged(i)]
    /\ UNCHANGED <<mod, overrun, plc_initialized, ptrs, rel, at>>

Init ==
    /\ mem = [r \in {"buffer", "flash"} |-> Erased]
    /\ mod = Free /\ overrun = FALSE /\ plc_initialized = 0
    /\ ptrs = [n \in Required |-> NULL] /\ rel = 0 /\ at = "idle"

Reset ==
    /\ mem' = [r \in {"buffer", "flash"} |-> IF r = "flash" THEN mem[r] ELSE Erased]
    /\ mod' = Free /\ overrun' = FALSE /\ plc_initialized' = 0
    /\ ptrs' = [n \in Required |-> NULL] /\ rel' = 0 /\ at' = "idle"

Next ==
    \/ \E i \in Images : LoadFile(i) \/ Flash(i)
    \/ LoadFlash \/ Setup \/ Copy \/ Relocate \/ LoadFails \/ LookupSymbols
    \/ Unload \/ Erase \/ Reset

Spec == Init /\ [][Next]_vars

-----------------------------------------------------------------------------
(* Properties                                                              *)

Regions == {"null", "buffer", "flash"} \cup Blocks \cup Exports

\* Every variable stays in its range; a module is a header and RAM in regions of
\* the memory, and between two operations nobody's or a program's.
TypeOK ==
    /\ {"buffer", "flash"} \subseteq DOMAIN mem /\ DOMAIN mem \subseteq {"buffer", "flash"} \cup Blocks
    /\ mod.p_header[1] \in Regions /\ mod.p_header[2] \in Nat
    /\ mod.p_ram \in {NULL} \cup (Blocks \X {0})
    /\ mod.mode \in {"COPY_ALL", "XIP"}
    /\ overrun \in BOOLEAN /\ plc_initialized \in {0, 1} /\ rel \in Nat
    /\ \A n \in Required : ptrs[n][1] \in Regions
    /\ at \in {"idle", "setup", "copy", "relocate", "fail", "lookup"}

Loaded == at = "idle" /\ plc_initialized = 1

\* The word of the data of the loaded program: its data ends where the RAM
\* does, but for what is cleared.
DataWord(i, k) == Plus(mod.p_ram, RamSize(mod, i) - i.bss - i.data + k)

\* The address a is that of the symbol: the word there is the one the compiler
\* put there, one that a relocation replaced, or one that was cleared for it.
IsSymbol(i, sym, a) ==
    IF sym.type = "extern" THEN a = <<sym.name, 0>>
    ELSE IF sym.location = "code" THEN Read(a) = <<"image", i, CodeOffset(i) + sym.val>>
    ELSE IF sym.val >= i.data THEN Read(a) = <<"bss", i, sym.val - i.data>>
    ELSE /\ a = DataWord(i, sym.val)
         /\ \/ Read(a) = <<"image", i, CodeOffset(i) + i.code + sym.val>>
            \/ Read(a)[1] = "ptr" /\ \E r \in DOMAIN i.rels : i.rels[r].at = i.lot + sym.val

\* Every relocation of a loaded program holds the address of what it refers
\* to, in the place the compiled code looks for it, for modules copied into RAM
\* and for those executed in the flash.
LinkedRight ==
    Loaded =>
        /\ HasHeader(mod)
        /\ LET i == Header(mod)
           IN  \A n \in DOMAIN i.rels :
                  LET r == i.rels[n]
                      w == Read(IF r.at < i.lot THEN Plus(mod.p_ram, r.at) ELSE DataWord(i, r.at - i.lot))
                  IN  /\ w[1] = "ptr"
                      /\ IF r.abs THEN <<w[2], w[3]>> = DataWord(i, r.sym)
                         ELSE IsSymbol(i, i.syms[r.sym], <<w[2], w[3]>>)

\* The function pointers of the PLC (plc_loader.c:537) are those of the loaded
\* program, and nothing of it is left in elf_buffer, which the next file
\* overwrites.
PointersLive ==
    Loaded =>
        /\ mod.p_header[1] # "buffer"
        /\ HasHeader(mod)
        /\ \A n \in Required :
              /\ ptrs[n][1] # "buffer"
              /\ LET i == Header(mod) IN \E s \in Named(i, n) : IsSymbol(i, i.syms[s], ptrs[n])

\* Between two operations the heap holds the RAM of the loaded program and
\* nothing else: no path of a load or unload loses it.
HeapIsModule ==
    at = "idle" =>
        Blocks \cap DOMAIN mem =
            IF plc_initialized = 1 /\ mod.p_ram # NULL THEN {mod.p_ram[1]} ELSE {}

\* udynlink writes inside the RAM it asked for and frees it once.
NoOverrun == ~overrun

-----------------------------------------------------------------------------
(* What the compiler delivers: relocations of different words of the LOT   *)
(* and of the data, those of an address in the data for a word of the      *)
(* data, the others with a symbol there is; symbols inside the code or the *)
(* data; and every name the loader looks up, exported.                     *)

RelocationFits(i, r) ==
    /\ r.at < i.lot + i.data
    /\ IF r.abs THEN r.at >= i.lot ELSE r.sym \in DOMAIN i.syms

SymbolFits(i, sym) ==
    \/ sym.type \in {"name", "extern"}
    \/ /\ sym.type \in {"local", "exported"} /\ sym.val \in Nat
       /\ \/ sym.location = "code" /\ sym.val < i.code
          \/ sym.location = "data" /\ sym.val < i.data + i.bss

Linkable(i) ==
    /\ i.lot \in Nat /\ i.code \in Nat /\ i.data \in Nat /\ i.bss \in Nat
    /\ i.rels \in Seq([abs : BOOLEAN, at : Nat, sym : Nat])
    /\ Len(i.syms) \in Nat
    /\ \A n \in DOMAIN i.rels :
          /\ RelocationFits(i, i.rels[n])
          /\ \A m \in DOMAIN i.rels : i.rels[m].at = i.rels[n].at => m = n
    /\ \A s \in DOMAIN i.syms :
          /\ SymbolFits(i, i.syms[s])
          /\ i.syms[s].name \in Required => i.syms[s].type = "exported"
    /\ Complete(i)
=============================================================================
