------------------------------ MODULE Structs ------------------------------
(***************************************************************************)
(* A structure of the target as the extension knows it: a table of fields, *)
(* resolved against the symbols (ResolveStruct), then read in one piece    *)
(* (ReadVirtualStruct), whose length GetReadStructLength finds from the    *)
(* fields, not from the type.  The accessors dereference a field's data    *)
(* pointer without looking at the length.                                  *)
(***************************************************************************)
EXTENDS Integers

CONSTANTS
  NumFields,  \* fields of the table, before END_FIELD
  Optional,   \* those declared with DECL_FIELD_OPT
  Symbols     \* what the symbols may say: [layout, absent]

Fields == 1 .. NumFields

\* Where a field is in the structure, and its size.
Places == [offset : Nat, size : Nat]

End(p) == p.offset + p.size

\* A field that starts after another ends after it or with it, and fields that
\* start together (a union) have one size.
InOrder(layout) ==
  \A f, g \in Fields :
    /\ layout[f].offset < layout[g].offset => End(layout[f]) <= End(layout[g])
    /\ layout[f].offset = layout[g].offset => layout[f].size = layout[g].size

\* The tables of syms.cpp end with a mandatory field, and the structures they
\* are for are laid out in order, with some mandatory field beyond the first
\* byte.
ASSUME StructsAssumption ==
  /\ NumFields \in Nat \ {0}
  /\ Optional \subseteq Fields \ {NumFields}
  /\ \A s \in Symbols :
       /\ s \in [layout : [Fields -> Places], absent : SUBSET Fields]
       /\ InOrder(s.layout)
       /\ \E f \in Fields \ Optional : s.layout[f].offset > 0

VARIABLES
  symbols,    \* the symbols of this target
  pc,         \* "type", "field": ResolveStruct; "length": GetReadStructLength;
              \* "read": ReadVirtualStruct; "access"; "failed"
  field,      \* the loops' position in the table
  place,      \* fieldOffset and fieldSize of each field
  present,    \* the fields whose fieldTypeId is not FIELD_NOT_PRESENT
  ret,        \* the HRESULT of ResolveStruct
  offset,     \* GetReadStructLength's locals
  length,
  fieldData,  \* the fields' data pointers, relative to the buffer
  broken      \* history: a call failed that no table can do without

vars == <<symbols, pc, field, place, present, ret, offset, length, fieldData, broken>>

Nowhere == [offset |-> 0, size |-> 0]

\* CloneStruct copies the table.
Init ==
  /\ symbols \in Symbols
  /\ pc = "type"
  /\ field = 1
  /\ place = [f \in Fields |-> Nowhere]
  /\ present = Fields
  /\ ret = "S_OK"
  /\ offset = 0 /\ length = 0
  /\ fieldData = [f \in Fields |-> 0]
  /\ broken = FALSE

-----------------------------------------------------------------------------
TypeFound ==
  /\ pc = "type"
  /\ pc' = "field"
  /\ UNCHANGED <<symbols, field, place, present, ret, offset, length, fieldData, broken>>

\* No such module or type, no size for a field's type.
Broken ==
  /\ \/ pc = "type"
     \/ pc = "field" /\ field <= NumFields /\ field \notin symbols.absent
  /\ ret' = "fail"
  /\ broken' = TRUE
  /\ pc' = "failed"
  /\ UNCHANGED <<symbols, field, place, present, offset, length, fieldData>>

ResolveFieldKeepRet ==
  /\ pc = "field" /\ field <= NumFields /\ field \notin symbols.absent
  /\ place' = [place EXCEPT ![field] = symbols.layout[field]]
  /\ field' = field + 1
  /\ UNCHANGED <<symbols, pc, present, ret, offset, length, fieldData, broken>>

ResolveField ==
  /\ pc = "field" /\ field <= NumFields /\ field \notin symbols.absent
  /\ place' = [place EXCEPT ![field] = symbols.layout[field]]
  /\ ret' = "S_OK"
  /\ field' = field + 1
  /\ UNCHANGED <<symbols, pc, present, offset, length, fieldData, broken>>

SkipOptionalUnmarked ==
  /\ pc = "field" /\ field <= NumFields
  /\ field \in symbols.absent /\ field \in Optional
  /\ place' = [place EXCEPT ![field] = Nowhere]
  /\ ret' = "fail"
  /\ field' = field + 1
  /\ UNCHANGED <<symbols, pc, present, offset, length, fieldData, broken>>

SkipOptionalMarkedByOffset ==
  /\ pc = "field" /\ field <= NumFields
  /\ field \in symbols.absent /\ field \in Optional
  /\ place' = [place EXCEPT ![field] = [offset |-> -1, size |-> 0]]
  /\ present' = present \ {field}
  /\ ret' = "fail"
  /\ field' = field + 1
  /\ UNCHANGED <<symbols, pc, offset, length, fieldData, broken>>

\* An optional field is marked as not present; ret keeps the failure until the
\* next field is resolved.
SkipOptional ==
  /\ pc = "field" /\ field <= NumFields
  /\ field \in symbols.absent /\ field \in Optional
  /\ place' = [place EXCEPT ![field] = Nowhere]
  /\ present' = present \ {field}
  /\ ret' = "fail"
  /\ field' = field + 1
  /\ UNCHANGED <<symbols, pc, offset, length, fieldData, broken>>

MandatoryMissing ==
  /\ pc = "field" /\ field <= NumFields
  /\ field \in symbols.absent /\ field \notin Optional
  /\ ret' = "fail"
  /\ pc' = "failed"
  /\ UNCHANGED <<symbols, field, place, present, offset, length, fieldData, broken>>

\* ResolveStruct returns ret.  A structure that is resolved may be read.
Resolved ==
  /\ pc = "field" /\ field > NumFields
  /\ IF ret = "fail"
     THEN pc' = "failed" /\ UNCHANGED <<field, offset, length>>
     ELSE pc' = "length" /\ field' = 1 /\ offset' = 0 /\ length' = 0
  /\ UNCHANGED <<symbols, place, present, ret, fieldData, broken>>

-----------------------------------------------------------------------------
\* GetReadStructLength: the length follows the field that starts last.
MeasureLastOfTable ==
  /\ pc = "length" /\ field <= NumFields
  /\ offset' = place[field].offset
  /\ length' = End(place[field])
  /\ field' = field + 1
  /\ UNCHANGED <<symbols, pc, place, present, ret, fieldData, broken>>

Measure ==
  /\ pc = "length" /\ field <= NumFields
  /\ IF place[field].offset > offset
     THEN offset' = place[field].offset /\ length' = End(place[field])
     ELSE UNCHANGED <<offset, length>>
  /\ field' = field + 1
  /\ UNCHANGED <<symbols, pc, place, present, ret, fieldData, broken>>

Measured ==
  /\ pc = "length" /\ field > NumFields
  /\ pc' = "read"
  /\ UNCHANGED <<symbols, field, place, present, ret, offset, length, fieldData, broken>>

\* ReadVirtual gets length bytes into a buffer of that size, and each field is
\* pointed into it, those not present as well.
ReadOk ==
  /\ pc = "read"
  /\ fieldData' = [f \in Fields |-> place[f].offset]
  /\ pc' = "access"
  /\ UNCHANGED <<symbols, field, place, present, ret, offset, length, broken>>

\* No memory, or the target cannot be read there.
ReadFails ==
  /\ pc = "read"
  /\ pc' = "failed"
  /\ broken' = TRUE
  /\ UNCHANGED <<symbols, field, place, present, ret, offset, length, fieldData>>

Finished == pc \in {"access", "failed"} /\ UNCHANGED vars

Next ==
  \/ TypeFound \/ Broken
  \/ ResolveField \/ SkipOptional \/ MandatoryMissing \/ Resolved
  \/ Measure \/ Measured
  \/ ReadOk \/ ReadFails
  \/ Finished

Spec == Init /\ [][Next]_vars

-----------------------------------------------------------------------------
TypeOK ==
  /\ symbols \in Symbols
  /\ pc \in {"type", "field", "length", "read", "access", "failed"}
  /\ field \in 1 .. NumFields + 1
  /\ place \in [Fields -> Places]
  /\ present \subseteq Fields
  /\ ret \in {"S_OK", "fail"}
  /\ offset \in Nat /\ length \in Nat
  /\ fieldData \in [Fields -> Nat]
  /\ broken \in BOOLEAN

\* What is read is the structure up to the end of the last field that is there:
\* each of them lies in it, and it is not a byte longer (a longer read could
\* fail where the structure itself can be read).
ReadLengthIsExact ==
  pc \in {"read", "access"} =>
    /\ \A f \in Fields \ symbols.absent : End(symbols.layout[f]) <= length
    /\ \E f \in Fields \ symbols.absent : End(symbols.layout[f]) = length

\* An accessor asked for a field that is there reads that field, and nothing
\* outside the buffer; a field that is not there can be told from one that is.
AccessIsInBuffer ==
  pc = "access" =>
    /\ present = Fields \ symbols.absent
    /\ \A f \in present :
         /\ fieldData[f] = symbols.layout[f].offset
         /\ fieldData[f] + symbols.layout[f].size <= length

\* A structure is given up only for a call that failed or a field that it
\* cannot do without, never for an optional one.
OptionalIsOptional ==
  pc = "failed" => broken \/ \E f \in symbols.absent : f \notin Optional
=============================================================================
