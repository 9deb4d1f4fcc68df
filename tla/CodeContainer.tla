---------------------------- MODULE CodeContainer ----------------------------
(***************************************************************************)
(* Modules and executables as they stand in files.                         *)
(*                                                                         *)
(* A file begins with a header of numbers, among them the address and the  *)
(* size of each table; the commands and the tables follow.  A number and   *)
(* an id take one cell here, and so does an address or an opcode of the    *)
(* commands.  The header is written last, over the room left for it, as    *)
(* sizes are known only then.                                              *)
(***************************************************************************)
EXTENDS Linker
Ext == INSTANCE SequencesExt

Number(n) == [holds |-> "number", id |-> None, value |-> n]
IdCell(id) == [holds |-> "id", id |-> id, value |-> None]

kVersion == 1
ModuleHeaderSize == 16
ExeHeaderSize == 9

-----------------------------------------------------------------------------
(* SimpleCodeContainerWriter                                               *)

IdSizes(vars) ==
  Concat([i \in DOMAIN vars |-> <<IdCell(vars[i]), Number(Size[vars[i]])>>])

FuncAddresses(defs) ==
  LET seq == Ext!SetToSeq(defs)
  IN  Concat([i \in DOMAIN seq |-> <<IdCell(seq[i].id), Number(seq[i].address)>>])

WriteIds(ids) ==
  LET seq == Ext!SetToSeq(ids) IN [i \in DOMAIN seq |-> IdCell(seq[i])]

(* An id, the number of its addresses, and those in ascending order.       *)
Ascending(addresses) ==
  [i \in 1..Cardinality(addresses) |->
     CHOOSE a \in addresses : Cardinality({b \in addresses : b < a}) = i - 1]

IdAddresses(id, addresses) ==
  LET seq == Ascending(addresses)
  IN  <<IdCell(id), Number(Len(seq))>> \o [i \in DOMAIN seq |-> Number(seq[i])]

WriteIdAddresses(refs, ids) ==
  LET seq == Ext!SetToSeq({id \in ids : refs[id] # {}})
  IN  Concat([i \in DOMAIN seq |-> IdAddresses(seq[i], refs[seq[i]])])

(* Where each of the tables lies, the first one at start, and its size.    *)
Directory(start, tables) ==
  Concat([i \in DOMAIN tables |->
            <<Number(start + SumBefore(Lens(tables), i)), Number(Len(tables[i]))>>])

CodeSizesFields(container) ==
  <<Number(container.main_size),
    Number(Len(container.cells) - container.main_size)>>

ModuleTables(m) ==
  <<IdSizes(m.var_defs), FuncAddresses(m.func_defs), WriteIds(m.native_defs),
    WriteIdAddresses(m.refs, Var), WriteIdAddresses(m.refs, Func),
    WriteIdAddresses(m.refs, Native)>>

WriteModule(m) ==
  <<Number(kVersion), Number(ModuleHeaderSize)>> \o CodeSizesFields(m)
    \o Directory(ModuleHeaderSize + Len(m.cells), ModuleTables(m))
    \o m.cells \o Concat(ModuleTables(m))

ExeTables(exe) ==
  <<WriteIds(exe.native_defs), WriteIdAddresses(exe.native_refs, Native)>>

WriteExe(exe) ==
  <<Number(kVersion), Number(exe.vars_size), Number(ExeHeaderSize)>>
    \o CodeSizesFields(exe)
    \o Directory(ExeHeaderSize + Len(exe.cells), ExeTables(exe))
    \o exe.cells \o Concat(ExeTables(exe))

-----------------------------------------------------------------------------
(* SimpleModuleReader and SimpleExeReader.  The cell at an address.        *)
CellAt(text, address) == text[address + 1]
Field(text, i) == CellAt(text, i).value

(* The commands begin at the address in the field at first, their sizes    *)
(* are behind it; the table of a number has its address and size in two    *)
(* more.                                                                   *)
CmdsSize(text, first) == Field(text, first + 1) + Field(text, first + 2)
TableAddress(text, first, table) == Field(text, first + 1 + 2 * table)
TableSize(text, first, table) == Field(text, first + 2 + 2 * table)

(* Every read, and every move to a table, asserts that it stays within the *)
(* file.  The commands are copied without such a check, but the table that *)
(* is read next lies behind them: what the copy does beyond the end of a   *)
(* file is undefined, and if it does no harm the move to the table stops   *)
(* the process.                                                            *)
(* Mutant: the last table may be cut short.                                *)
IsReadThroughMutant(text, header_size, first, tables) ==
  /\ Len(text) >= header_size
  /\ \A t \in 1..tables - 1 :
       TableAddress(text, first, t) + TableSize(text, first, t) <= Len(text)
IsReadThrough(text, header_size, first, tables) ==
  /\ Len(text) >= header_size
  /\ Field(text, first) + CmdsSize(text, first) <= Len(text)
  /\ \A t \in 1..tables :
       TableAddress(text, first, t) + TableSize(text, first, t) <= Len(text)

IsReadAsModule(text) == IsReadThrough(text, ModuleHeaderSize, 1, 6)
IsReadAsExe(text) == IsReadThrough(text, ExeHeaderSize, 2, 2)

ReadCmds(text, first) ==
  SubSeq(text, Field(text, first) + 1, Field(text, first) + CmdsSize(text, first))

Table(text, first, t) ==
  LET address == TableAddress(text, first, t)
  IN  SubSeq(text, address + 1, address + TableSize(text, first, t))

(* The entries of a table of pairs, each of an id and a number.            *)
ReadPairs(table) ==
  [i \in 1..Len(table) \div 2 |->
     [id |-> table[2 * i - 1].id, number |-> table[2 * i].value]]

(* Where the entry behind n others of a table of references begins, if     *)
(* there is one: each is as long as its number says.                       *)
EntryAddress(table, n) ==
  LET start[i \in 0..Len(table)] ==
        IF i = 0 THEN 0
        ELSE IF start[i - 1] = Len(table) THEN Len(table)
        ELSE start[i - 1] + 2 + Field(table, start[i - 1] + 1)
  IN  start[n]

ReadIdAddresses(table) ==
  {[id |-> CellAt(table, at).id,
    addresses |-> {Field(table, at + 1 + i) : i \in 1..Field(table, at + 1)}] :
     at \in {EntryAddress(table, n) : n \in 0..Len(table)} \ {Len(table)}}

ReadRefs(table, id) ==
  UNION {entry.addresses : entry \in {e \in ReadIdAddresses(table) : e.id = id}}

ReadIds(table) == {table[i].id : i \in DOMAIN table}

ReadModule(text) ==
  LET vars == ReadPairs(Table(text, 1, 1))
      funcs == ReadPairs(Table(text, 1, 2))
      refs(id) == CASE id \in Var -> ReadRefs(Table(text, 1, 4), id)
                    [] id \in Func -> ReadRefs(Table(text, 1, 5), id)
                    [] id \in Native -> ReadRefs(Table(text, 1, 6), id)
  IN  [cells |-> ReadCmds(text, 1), main_size |-> Field(text, 2),
       func_defs |-> {[id |-> funcs[i].id, address |-> funcs[i].number] :
                        i \in DOMAIN funcs},
       var_defs |-> [i \in DOMAIN vars |-> vars[i].id],
       native_defs |-> ReadIds(Table(text, 1, 3)),
       refs |-> [id \in Id |-> refs(id)]]

ReadExe(text) ==
  [cells |-> ReadCmds(text, 2), main_size |-> Field(text, 3),
   vars_size |-> Field(text, 1), native_defs |-> ReadIds(Table(text, 2, 1)),
   native_refs |-> [id \in Native |-> ReadRefs(Table(text, 2, 2), id)]]
=============================================================================
