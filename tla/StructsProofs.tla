--------------------------- MODULE StructsProofs ---------------------------
(***************************************************************************)
(* For every table of fields and every layout: what ReadVirtualStruct      *)
(* reads is exactly the structure, the accessors stay inside it, and       *)
(* optional fields are optional.                                           *)
(***************************************************************************)
EXTENDS Structs, TLAPS

\* What the symbols say of a field, for one that has been resolved.
Right(f) ==
  IF f \in symbols.absent THEN place[f] = Nowhere /\ f \in Optional /\ f \notin present
  ELSE place[f] = symbols.layout[f] /\ f \in present

\* The fields before position n have been resolved; the others wait.
ResolvedTo(n) ==
  /\ \A f \in Fields : f < n => Right(f)
  /\ \A f \in Fields : f >= n => f \in present

\* The fields before position n have been measured: offset is where the last
\* of them to start starts, length where it ends.
MeasuredTo(n) ==
  /\ \A f \in Fields : f < n => place[f].offset <= offset
  /\ offset > 0 => \E f \in Fields : place[f].offset = offset /\ length = End(place[f])

\* How far each of the two loops has come.
Loops ==
  /\ pc \in {"type", "field"} => ResolvedTo(field)
  /\ pc \in {"length", "read", "access"} => ResolvedTo(NumFields + 1)
  /\ pc = "length" => MeasuredTo(field)
  /\ pc \in {"read", "access"} => MeasuredTo(NumFields + 1)

\* Which failures there can be: ret is a failure only right after an optional
\* field, which is never the last of the table.
Failures ==
  /\ pc = "type" => field = 1
  /\ pc \in {"type", "field"} /\ ret = "fail" => field > 1 /\ field - 1 \in Optional
  /\ OptionalIsOptional

Pointed == pc = "access" => \A f \in Fields : fieldData[f] = place[f].offset

\* The inductive invariant.
Inv == TypeOK /\ Loops /\ Failures /\ Pointed

-----------------------------------------------------------------------------
LEMMA SymbolsTyped ==
  ASSUME NEW s \in Symbols
  PROVE  /\ s.layout \in [Fields -> Places]
         /\ s.absent \subseteq Fields
  BY StructsAssumption

LEMMA InvInit == Init => Inv
  <1> SUFFICES ASSUME Init PROVE Inv
    OBVIOUS
  <1>1. TypeOK
    <2>1. Nowhere \in Places
      BY DEF Nowhere, Places
    <2>2. place \in [Fields -> Places] /\ fieldData \in [Fields -> Nat]
      BY <2>1 DEF Init
    <2>3. field \in 1 .. NumFields + 1
      BY StructsAssumption DEF Init
    <2> QED
      BY <2>2, <2>3 DEF Init, TypeOK
  <1>2. Loops
    BY StructsAssumption DEF Init, Loops, ResolvedTo, Fields
  <1>3. Failures /\ Pointed
    BY DEF Init, Failures, Pointed, OptionalIsOptional
  <1> QED
    BY <1>1, <1>2, <1>3 DEF Inv

LEMMA TypeNext == TypeOK /\ [Next]_vars => TypeOK'
  <1> SUFFICES ASSUME TypeOK, [Next]_vars PROVE TypeOK'
    OBVIOUS
  <1> USE DEF TypeOK
  <1>1. NumFields \in Nat \ {0} /\ symbols.layout \in [Fields -> Places]
    BY StructsAssumption, SymbolsTyped
  <1>2. field <= NumFields => field \in Fields /\ field + 1 \in 1 .. NumFields + 1
    BY <1>1 DEF Fields
  <1>3. CASE TypeFound \/ Broken \/ MandatoryMissing \/ Measured \/ ReadFails
    BY <1>3 DEF TypeFound, Broken, MandatoryMissing, Measured, ReadFails
  <1>4. CASE ResolveField
    <2>1. place' \in [Fields -> Places]
      BY <1>1, <1>2, <1>4 DEF ResolveField
    <2> QED
      BY <1>2, <1>4, <2>1 DEF ResolveField
  <1>5. CASE SkipOptional
    <2>1. Nowhere \in Places
      BY DEF Nowhere, Places
    <2>2. place' \in [Fields -> Places]
      BY <1>5, <2>1 DEF SkipOptional
    <2> QED
      BY <1>2, <1>5, <2>2 DEF SkipOptional
  <1>6. CASE Resolved
    BY <1>1, <1>6 DEF Resolved
  <1>7. CASE Measure
    <2>1. place[field].offset \in Nat /\ End(place[field]) \in Nat
      BY <1>2, <1>7 DEF Measure, Places, End
    <2> QED
      BY <1>2, <1>7, <2>1 DEF Measure
  <1>8. CASE ReadOk
    <2>1. \A f \in Fields : place[f].offset \in Nat
      BY DEF Places
    <2> QED
      BY <1>8, <2>1 DEF ReadOk
  <1>9. CASE Finished \/ UNCHANGED vars
    BY <1>9 DEF Finished, vars
  <1> QED
    BY <1>3, <1>4, <1>5, <1>6, <1>7, <1>8, <1>9 DEF Next

-----------------------------------------------------------------------------
\* The loop over the fields of ResolveStruct, step by step.
LEMMA ResolveNext ==
  ASSUME Inv, [Next]_vars
  PROVE  /\ (pc \in {"type", "field"})' => ResolvedTo(field)'
         /\ (pc \in {"length", "read", "access"})' => ResolvedTo(NumFields + 1)'
  <1>1. /\ place \in [Fields -> Places] /\ present \subseteq Fields
        /\ NumFields \in Nat \ {0} /\ field \in 1 .. NumFields + 1 /\ Fields = 1 .. NumFields
    BY StructsAssumption DEF Inv, TypeOK, Fields
  <1>2. CASE TypeFound
    BY <1>2 DEF TypeFound, Inv, Loops, ResolvedTo, Right
  <1>3. CASE Broken \/ MandatoryMissing \/ ReadFails
    BY <1>3 DEF Broken, MandatoryMissing, ReadFails
  <1>4. CASE ResolveField \/ SkipOptional
    <2>1. /\ ResolvedTo(field) /\ field \in Fields
          /\ pc' = "field" /\ field' = field + 1 /\ symbols' = symbols
      BY <1>1, <1>4 DEF ResolveField, SkipOptional, Inv, Loops
    <2>2. PICK n \in Fields : n = field
      BY <2>1
    <2>3. \A f \in Fields \ {n} : place'[f] = place[f] /\ (f \in present' <=> f \in present)
      BY <1>1, <1>4, <2>2 DEF ResolveField, SkipOptional
    <2>4. Right(n)'
      <3>1. CASE ResolveField
        BY <1>1, <2>1, <2>2, <3>1 DEF ResolveField, ResolvedTo, Right
      <3>2. CASE SkipOptional
        BY <1>1, <2>1, <2>2, <3>2 DEF SkipOptional, Right
      <3> QED
        BY <1>4, <3>1, <3>2
    <2>5. ASSUME NEW f \in Fields, f < n PROVE Right(f)'
      <3>1. Right(f) /\ f # n
        BY <1>1, <2>1, <2>2, <2>5 DEF ResolvedTo
      <3> QED
        BY <2>1, <2>3, <3>1 DEF Right
    <2>6. \A f \in Fields : f < n + 1 => f < n \/ f = n
      BY <1>1
    <2>7. \A f \in Fields : f >= n + 1 => f # n /\ f >= n
      BY <1>1
    <2>8. \A f \in Fields : f >= n + 1 => f \in present'
      BY <2>1, <2>2, <2>3, <2>7 DEF ResolvedTo
    <2> QED
      BY <2>1, <2>2, <2>4, <2>5, <2>6, <2>8 DEF ResolvedTo
  <1>5. CASE Resolved
    <2>1. field = NumFields + 1
      BY <1>1, <1>5 DEF Resolved
    <2>2. ResolvedTo(NumFields + 1)
      BY <1>5, <2>1 DEF Resolved, Inv, Loops
    <2> QED
      BY <1>5, <2>2 DEF Resolved, ResolvedTo, Right
  <1>6. CASE Measure \/ Measured \/ ReadOk
    BY <1>6 DEF Measure, Measured, ReadOk, Inv, Loops, ResolvedTo, Right
  <1>7. CASE Finished \/ UNCHANGED vars
    BY <1>7 DEF Finished, vars, Inv, Loops, ResolvedTo, Right
  <1> QED
    BY <1>2, <1>3, <1>4, <1>5, <1>6, <1>7 DEF Next

\* The loop of GetReadStructLength.
LEMMA MeasureNext ==
  ASSUME Inv, [Next]_vars
  PROVE  /\ (pc = "length")' => MeasuredTo(field)'
         /\ (pc \in {"read", "access"})' => MeasuredTo(NumFields + 1)'
  <1>1. /\ \A f \in Fields : place[f].offset \in Nat
        /\ offset \in Nat /\ NumFields \in Nat \ {0}
        /\ field \in 1 .. NumFields + 1 /\ Fields = 1 .. NumFields
    BY StructsAssumption DEF Inv, TypeOK, Fields, Places
  <1>2. CASE Resolved
    <2>1. CASE ret = "fail"
      BY <1>2, <2>1 DEF Resolved
    <2>2. CASE ret # "fail"
      <3>1. pc' = "length" /\ field' = 1 /\ offset' = 0
        BY <1>2, <2>2 DEF Resolved
      <3> QED
        BY <1>1, <3>1 DEF MeasuredTo
    <2> QED
      BY <2>1, <2>2
  <1>3. CASE Measure
    <2>1. /\ MeasuredTo(field) /\ field \in Fields
          /\ pc' = "length" /\ place' = place /\ field' = field + 1
      BY <1>1, <1>3 DEF Measure, Inv, Loops
    <2>2. \A f \in Fields : f < field + 1 => f < field \/ f = field
      BY <1>1
    <2>3. CASE place[field].offset > offset
      <3>1. offset' = place[field].offset /\ length' = End(place[field])
        BY <1>3, <2>3 DEF Measure
      <3>2. \A f \in Fields : f < field => place[f].offset <= offset
        BY <2>1 DEF MeasuredTo
      <3>3. \A f \in Fields : f < field + 1 => place[f].offset <= offset'
        BY <1>1, <2>1, <2>2, <2>3, <3>1, <3>2
      <3> QED
        BY <2>1, <3>1, <3>3 DEF MeasuredTo, End
    <2>4. CASE ~(place[field].offset > offset)
      <3>1. offset' = offset /\ length' = length
        BY <1>3, <2>4 DEF Measure
      <3>2. place[field].offset <= offset
        BY <1>1, <2>1, <2>4
      <3> QED
        BY <2>1, <2>2, <3>1, <3>2 DEF MeasuredTo, End
    <2> QED
      BY <2>3, <2>4
  <1>4. CASE Measured
    <2>1. field = NumFields + 1
      BY <1>1, <1>4 DEF Measured
    <2> QED
      BY <1>4, <2>1 DEF Measured, Inv, Loops, MeasuredTo, End
  <1>5. CASE ReadOk
    BY <1>5 DEF ReadOk, Inv, Loops, MeasuredTo, End
  <1>6. CASE TypeFound \/ Broken \/ ResolveField \/ SkipOptional \/ MandatoryMissing \/ ReadFails
    BY <1>6 DEF TypeFound, Broken, ResolveField, SkipOptional, MandatoryMissing, ReadFails
  <1>7. CASE Finished \/ UNCHANGED vars
    BY <1>7 DEF Finished, vars, Inv, Loops, MeasuredTo, End
  <1> QED
    BY <1>2, <1>3, <1>4, <1>5, <1>6, <1>7 DEF Next

LEMMA FailuresNext == Inv /\ [Next]_vars => Failures' /\ Pointed'
  <1> SUFFICES ASSUME Inv, [Next]_vars PROVE Failures' /\ Pointed'
    OBVIOUS
  <1> USE StructsAssumption DEF Inv, TypeOK, Fields, Failures, Pointed, OptionalIsOptional
  <1>1. CASE TypeFound \/ Broken
    BY <1>1 DEF TypeFound, Broken
  <1>2. CASE ResolveField \/ SkipOptional \/ MandatoryMissing
    BY <1>2 DEF ResolveField, SkipOptional, MandatoryMissing
  <1>3. CASE Resolved
    <2>1. field = NumFields + 1
      BY <1>3 DEF Resolved
    <2>2. ret # "fail"
      BY <1>3, <2>1 DEF Resolved
    <2> QED
      BY <1>3, <2>2 DEF Resolved
  <1>4. CASE Measure \/ Measured
    BY <1>4 DEF Measure, Measured
  <1>5. CASE ReadOk \/ ReadFails
    BY <1>5 DEF ReadOk, ReadFails
  <1>6. CASE Finished \/ UNCHANGED vars
    BY <1>6 DEF Finished, vars
  <1> QED
    BY <1>1, <1>2, <1>3, <1>4, <1>5, <1>6 DEF Next

LEMMA InvNext == Inv /\ [Next]_vars => Inv'
  <1> SUFFICES ASSUME Inv, [Next]_vars PROVE Inv'
    OBVIOUS
  <1>1. TypeOK'
    BY TypeNext DEF Inv
  <1>2. Loops'
    BY ResolveNext, MeasureNext DEF Loops
  <1>3. Failures' /\ Pointed'
    BY FailuresNext
  <1> QED
    BY <1>1, <1>2, <1>3 DEF Inv

-----------------------------------------------------------------------------
\* In every reachable state the loops of ResolveStruct and GetReadStructLength
\* have done what their positions say.
THEOREM InvAlways == Spec => []Inv
  BY InvInit, InvNext, PTL DEF Spec

\* Every variable keeps its type, the offsets and lengths of syms.cpp included.
THEOREM TypeCorrect == Spec => []TypeOK
  BY InvAlways, PTL DEF Inv

\* When the loop is over, length is the end of the field that starts last:
\* there is such a field beyond the first byte, and in a layout in order none
\* ends after it.
LEMMA LengthFromLast == Inv => ReadLengthIsExact
  <1> SUFFICES ASSUME Inv, pc \in {"read", "access"}
               PROVE  /\ \A f \in Fields \ symbols.absent : End(symbols.layout[f]) <= length
                      /\ \E f \in Fields \ symbols.absent : End(symbols.layout[f]) = length
    BY DEF ReadLengthIsExact
  <1>1. /\ symbols.layout \in [Fields -> Places] /\ InOrder(symbols.layout)
        /\ \E f \in Fields \ Optional : symbols.layout[f].offset > 0
    BY StructsAssumption DEF Inv, TypeOK
  <1>2. \A f \in Fields : f < NumFields + 1
    BY StructsAssumption DEF Fields
  <1>3. \A f \in Fields : Right(f) /\ place[f].offset <= offset
    BY <1>2 DEF Inv, Loops, ResolvedTo, MeasuredTo
  <1>4. offset \in Nat /\ length \in Nat
    BY DEF Inv, TypeOK
  <1>5. offset > 0
    <2>1. PICK f \in Fields \ Optional : symbols.layout[f].offset > 0
      BY <1>1
    <2>2. place[f] = symbols.layout[f]
      BY <1>3 DEF Right
    <2>3. symbols.layout[f].offset \in Nat
      BY <1>1 DEF Places
    <2> QED
      BY <1>3, <1>4, <2>1, <2>2, <2>3
  <1>6. PICK last \in Fields : place[last].offset = offset /\ length = End(place[last])
    BY <1>5 DEF Inv, Loops, MeasuredTo
  <1>7. last \notin symbols.absent /\ place[last] = symbols.layout[last]
    BY <1>3, <1>5, <1>6 DEF Right, Nowhere
  <1>8. ASSUME NEW f \in Fields \ symbols.absent PROVE End(symbols.layout[f]) <= length
    <2>1. symbols.layout[f].offset <= symbols.layout[last].offset
      BY <1>3, <1>6, <1>7 DEF Right
    <2>2. symbols.layout[f] \in Places /\ symbols.layout[last] \in Places
      BY <1>1
    <2> QED
      BY <1>1, <1>6, <1>7, <2>1, <2>2 DEF InOrder, Places, End
  <1> QED
    BY <1>6, <1>7, <1>8

\* What ReadVirtualStruct reads is the structure, up to the end of the last
\* field that is there, for every table and every layout in order.
THEOREM ReadsTheStructure == Spec => []ReadLengthIsExact
  BY InvAlways, LengthFromLast, PTL

\* GetStructPointer and the GS_ accessors stay inside the buffer.
THEOREM AccessorsStayInside == Spec => []AccessIsInBuffer
  <1>1. Inv => AccessIsInBuffer
    <2> SUFFICES ASSUME Inv, pc = "access" PROVE AccessIsInBuffer
      BY DEF AccessIsInBuffer
    <2>1. \A f \in Fields : Right(f) /\ fieldData[f] = place[f].offset
      <3>1. \A f \in Fields : f < NumFields + 1
        BY StructsAssumption DEF Fields
      <3> QED
        BY <3>1 DEF Inv, Loops, ResolvedTo, Pointed
    <2>2. present = Fields \ symbols.absent
      BY <2>1 DEF Right, Inv, TypeOK
    <2>3. \A f \in present : End(symbols.layout[f]) <= length
      BY <2>2, LengthFromLast DEF ReadLengthIsExact
    <2> QED
      BY <2>1, <2>2, <2>3 DEF AccessIsInBuffer, Right, End
  <1> QED
    BY InvAlways, <1>1, PTL

\* ResolveStruct never fails for want of an optional field, as long as the
\* table does not end with one.
THEOREM OptionalFieldsAreOptional == Spec => []OptionalIsOptional
  BY InvAlways, PTL DEF Inv, Failures
=============================================================================
