---------------------------- MODULE SaxenProofs ----------------------------
(***************************************************************************)
(* Proofs about the parser of Saxen, for all prefixes, uris and            *)
(* configurations, any number of tags and any behaviour of the callbacks:  *)
(* the types; an error is kept and ends what is read; memoised names are   *)
(* those of the present matrix, logs and open tags stay paired, undoing a  *)
(* log restores the matrix of before its tag, and the names of one         *)
(* namespace agree.                                                        *)
(*                                                                         *)
(* The invariant is built in layers, each proved with the help of those    *)
(* before it: types, control, the owners of prefixes, depths, logs, and    *)
(* aliases.                                                                *)
(***************************************************************************)
EXTENDS Saxen, TLAPS, SequenceTheorems

(* There is a saved scope for every open tag, also after an error or an    *)
(* interrupted callback has left some behind.  (Of the change logs this is *)
(* only true while nothing has been interrupted: see Depths.)              *)
DepthOK ==
    /\ Between => Len(saved) >= Len(nodeStack)
    /\ pc \in {"attrs", "empty"} => Len(saved) >= 1
    /\ pc \in {"attrs", "empty"} /\ tag.empty => Len(saved) >= Len(nodeStack) + 1
    /\ pc = "attrs" /\ ~tag.empty => Len(saved) >= Len(nodeStack)
    /\ pc = "empty" => tag.empty

SafeTypes == TypeOK /\ DepthOK

-----------------------------------------------------------------------------
(* What the helpers return. *)

LEMMA BuildMatrixType ==
    ASSUME NEW own \in Scope
    PROVE  BuildMatrix(own) \in Matrix
  BY DEF BuildMatrix, Matrix, Key, Entry, Scope

LEMMA RestoreType ==
    ASSUME NEW m \in Matrix, NEW log \in Log
    PROVE  RestoreMatrix(m, log) \in Matrix
  BY NamesAssumption DEF RestoreMatrix, Matrix, Log, Entry

LEMMA NameType ==
    ASSUME TypeOK, NEW p \in Prefix
    PROVE  NameOf(p) \in Name
  <1>1. Alias(p) \in Key
    BY DEF Alias, Key
  <1>2. matrix[Alias(p)] \in Name
    BY <1>1 DEF TypeOK, NamespaceTypes, Matrix, Entry, Name
  <1>3. Default \in Prefix
    BY NamesAssumption
  <1> QED
    BY <1>2, <1>3 DEF TypeOK, NamespaceTypes, NameOf, Normalize, Name

LEMMA DeclarationsType ==
    ASSUME NEW decls \in Declarations
    PROVE  decls \in Seq(Declaration)
  <1>1. PICK n \in 0..MaxDecls : decls \in [1..n -> Declaration]
    BY DEF Declarations
  <1>2. n \in Nat
    BY <1>1, BoundsAssumption
  <1> QED
    BY <1>1, <1>2, SeqDef

(* Popping a stack that is not empty. *)
LEMMA PopType ==
    ASSUME NEW S, NEW s \in Seq(S), Len(s) >= 1
    PROVE  /\ SubSeq(s, 1, Len(s) - 1) \in Seq(S)
           /\ Len(SubSeq(s, 1, Len(s) - 1)) = Len(s) - 1
           /\ \A i \in 1..(Len(s) - 1) : SubSeq(s, 1, Len(s) - 1)[i] = s[i]
           /\ s[Len(s)] \in S
  <1> DEFINE n == Len(s) - 1
  <1>1. n \in Nat /\ n \in Int /\ 1 \in Int
    OBVIOUS
  <1>2. \A i \in 1..n : s[i] \in S
    OBVIOUS
  <1>3. s[Len(s)] \in S
    OBVIOUS
  <1>4. SubSeq(s, 1, n) \in Seq(S) /\ \A i \in 1..n : SubSeq(s, 1, n)[i] = s[i]
    OBVIOUS
  <1> HIDE DEF n
  <1>5. Len(SubSeq(s, 1, n)) = IF 1 <= n THEN n - 1 + 1 ELSE 0
    BY <1>1, <1>2, SubSeqProperties
  <1>6. Len(SubSeq(s, 1, n)) = n
    BY <1>1, <1>5
  <1> QED
    BY <1>3, <1>4, <1>6 DEF n

-----------------------------------------------------------------------------
LEMMA NothingTypes ==
    NoEvent \in Event /\ NoTag \in Tag /\ NoChanges \in Log /\ NoNames \in [Prefix -> Name]
  <1>1. Default \in DocPrefix
    BY NamesAssumption
  <1>2. NoTag \in Tag
    BY <1>1 DEF NoTag, Tag
  <1>3. NoEvent \in Event
    BY <1>1 DEF NoEvent, Event, Name
  <1> QED
    BY <1>2, <1>3 DEF NoChanges, NoNames, Log, Name

LEMMA InitTypes == Init => SafeTypes
  <1> SUFFICES ASSUME Init PROVE SafeTypes
    OBVIOUS
  <1>1. owner \in Scope
    BY DEF Init, Scope
  <1>2. matrix \in Matrix
    BY <1>1, BuildMatrixType DEF Init
  <1>3. uriPrefix \in [Uri -> Prefix \cup {None}]
    BY ConfigAssumption DEF Init
  <1>4. anonCount \in 0..Len(Anon)
    BY NamesAssumption DEF Init
  <1>5. TypeOK
    <2>1. ControlTypes
      BY DEF Init, ControlTypes, Locations
    <2>2. NamespaceTypes
      BY <1>1, <1>2, <1>3, <1>4, NothingTypes DEF Init, NamespaceTypes
    <2>3. StackTypes
      BY NothingTypes DEF Init, StackTypes
    <2> QED
      BY <2>1, <2>2, <2>3 DEF TypeOK
  <1>6. DepthOK
    BY DEF Init, DepthOK, Between
  <1> QED
    BY <1>5, <1>6 DEF SafeTypes

(* reset_state and reset_run, as far as the types go.                      *)
LEMMA ResetStateTypes ==
    ASSUME TypeOK, ResetState
    PROVE  /\ matrix' \in Matrix /\ owner' \in Scope
           /\ uriPrefix' \in [Uri -> Prefix \cup {None}]
           /\ scope' \in Scope
           /\ runs' \in Nat /\ error' = None /\ changeStack' = <<>> /\ nodeStack' = <<>>
           /\ saved' = <<>> /\ torn' = FALSE /\ stopped' = FALSE /\ rootFound' = FALSE
           /\ event' \in Event
  <1>1. owner \in Scope
    BY DEF TypeOK, NamespaceTypes
  <1>2. matrix' \in Matrix
    BY <1>1, BuildMatrixType DEF ResetState
  <1> QED
    BY <1>1, <1>2, NothingTypes DEF TypeOK, ControlTypes, NamespaceTypes, ResetState

LEMMA ResetRunTypes ==
    ASSUME ResetRun
    PROVE  /\ changes' \in Log /\ cache' \in [Prefix -> Name]
           /\ anonCount' \in 0..Len(Anon)
           /\ tag' \in Tag
  <1>1. Anon \in Seq(Prefix \ {Default})
    BY NamesAssumption
  <1> QED
    BY <1>1, NothingTypes DEF ResetRun

(* The control variables, whatever the others hold.                        *)
LEMMA WithinControl ==
    ASSUME ControlTypes, NEW outcome \in Outcome, CalledWithin(outcome)
    PROVE  /\ pc' \in Locations /\ stopped' \in BOOLEAN /\ torn' \in BOOLEAN /\ tags' \in Nat
  BY DEF ControlTypes, CalledWithin, Locations

LEMMA CalledControl ==
    ASSUME ControlTypes, NEW outcome \in Outcome, NEW next \in Locations,
           Called(outcome, next)
    PROVE  /\ pc' \in Locations /\ stopped' \in BOOLEAN /\ torn' \in BOOLEAN
           /\ leftover' \in BOOLEAN
  BY DEF ControlTypes, Called, Proceeds, Locations

LEMMA FailControl ==
    ASSUME ControlTypes, NEW kind \in FatalErrors, Fail(kind)
    PROVE  /\ pc' \in Locations /\ stopped' \in BOOLEAN /\ torn' \in BOOLEAN
           /\ leftover' \in BOOLEAN /\ error' \in Errors \cup {None}
  BY DEF ControlTypes, Fail, Locations, Errors

LEMMA SectionControl ==
    ASSUME ControlTypes, Section
    PROVE  /\ tags' \in Nat /\ rootFound' \in BOOLEAN /\ streaming' \in BOOLEAN
           /\ runs' \in Nat
  BY DEF ControlTypes, Section

LEMMA ResetControl ==
    ASSUME ControlTypes, ResetState
    PROVE  /\ runs' \in Nat /\ error' \in Errors \cup {None}
           /\ stopped' = FALSE /\ rootFound' = FALSE /\ torn' = FALSE
  BY DEF ControlTypes, ResetState

LEMMA ControlInductive ==
    ASSUME ControlTypes, [Next]_vars
    PROVE  ControlTypes'
  <1>1. CASE Parse \/ EndNothing
    BY <1>1, ResetControl DEF Parse, EndNothing, Begin, ControlTypes, Locations
  <1>2. CASE Write
    <2>1. CASE streaming
      BY <1>2, <2>1 DEF Write, KeepState, docVars, refVars, ControlTypes, Locations
    <2>2. CASE ~streaming
      BY <1>2, <2>2, ResetControl DEF Write, ControlTypes, Locations
    <2> QED
      BY <2>1, <2>2
  <1>3. CASE End
    <2>1. CASE error = None
      BY <1>3, <2>1 DEF End, docVars, refVars, ControlTypes, Locations
    <2>2. CASE error # None
      BY <1>3, <2>2 DEF End, refVars, ControlTypes, Locations
    <2> QED
      BY <2>1, <2>2
  <1>4. CASE Declare
    BY <1>4 DEF Declare, docVars, ControlTypes
  <1>5. CASE BadTag
    <2>1. "invalid tag" \in FatalErrors
      BY DEF FatalErrors
    <2> QED
      BY <1>5, <2>1, FailControl, SectionControl DEF BadTag, ControlTypes
  <1>6. ASSUME NEW raw \in DocPrefix, NEW empty \in BOOLEAN, NEW decls \in Declarations,
               OpenTag(raw, empty, decls)
        PROVE  ControlTypes'
    BY <1>6, SectionControl DEF OpenTag, ControlTypes, Locations
  <1>7. ASSUME NEW outcome \in Outcome, Misc(outcome)
        PROVE  ControlTypes'
    <2>1. "scan" \in Locations
      BY DEF Locations
    <2> QED
      BY <1>7, <2>1, CalledControl, SectionControl DEF Misc, ControlTypes
  <1>8. ASSUME NEW outcome \in Outcome, OpenEvent(outcome)
        PROVE  ControlTypes'
    <2>1. (IF tag.empty THEN "empty" ELSE "scan") \in Locations
      BY DEF Locations
    <2>2. "missing namespace" \in FatalErrors
      BY DEF FatalErrors
    <2> QED
      BY <1>8, <2>1, <2>2, CalledControl, FailControl DEF OpenEvent, ControlTypes
  <1>9. ASSUME NEW outcome \in Outcome, CloseEmpty(outcome)
        PROVE  ControlTypes'
    <2>1. "scan" \in Locations
      BY DEF Locations
    <2> QED
      BY <1>9, <2>1, CalledControl DEF CloseEmpty, EmitClose, ControlTypes
  <1>10. ASSUME NEW raw \in DocPrefix, NEW outcome \in Outcome, CloseTag(raw, outcome)
         PROVE  ControlTypes'
    <2>1. "scan" \in Locations
      BY DEF Locations
    <2>2. {"missing open tag", "closing tag mismatch", "missing namespace"} \subseteq FatalErrors
      BY DEF FatalErrors
    <2>3. CASE Fail("missing open tag") \/ Fail("closing tag mismatch")
                                        \/ Fail("missing namespace")
      BY <1>10, <2>2, <2>3, FailControl, SectionControl DEF CloseTag, ControlTypes
    <2>4. CASE Called(outcome, "scan") /\ UNCHANGED error
      BY <1>10, <2>1, <2>4, CalledControl, SectionControl DEF CloseTag, ControlTypes
    <2> QED
      BY <1>10, <2>3, <2>4 DEF CloseTag, EmitClose
  <1>11. ASSUME NEW partial \in BOOLEAN, ChunkEnd(partial)
         PROVE  ControlTypes'
    BY <1>11 DEF ChunkEnd, refVars, ControlTypes, Locations
  <1>12. ASSUME NEW partial \in BOOLEAN, Eof(partial)
         PROVE  ControlTypes'
    BY <1>12 DEF Eof, EndError, refVars, ControlTypes, Locations, Errors, FatalErrors
  <1>13. ASSUME NEW outcome \in Outcome, AttributeWarning(outcome) \/ AttributeError(outcome)
         PROVE  ControlTypes'
    BY <1>13, WithinControl DEF AttributeWarning, AttributeError, ControlTypes, Errors
  <1>14. CASE UNCHANGED vars
    BY <1>14 DEF vars, docVars, refVars, ControlTypes
  <1> QED
    BY <1>1, <1>2, <1>3, <1>4, <1>5, <1>6, <1>7, <1>8, <1>9, <1>10, <1>11, <1>12, <1>13, <1>14
    DEF Next

-----------------------------------------------------------------------------
(* The namespaces and the stacks. *)

LEMMA EmitCloseTypes ==
    ASSUME SafeTypes, Len(saved) >= 1, NEW outcome, NEW raw \in DocPrefix,
           NEW log \in Log, NEW rest \in Seq(Log), EmitClose(outcome, raw, log, rest)
    PROVE  /\ event' \in Event /\ changeStack' \in Seq(Log) /\ saved' \in Seq(Saved)
           /\ matrix' \in Matrix /\ changes' \in Log /\ cache' \in [Prefix -> Name]
           /\ scope' \in Scope
           /\ \/ pc' = "scan" /\ changeStack' = rest /\ Len(saved') = Len(saved) - 1
              \/ pc' = "idle" /\ changeStack' = changeStack /\ saved' = saved
  <1> USE DEF SafeTypes, TypeOK
  <1>1. DocPrefix \subseteq Prefix
    BY NamesAssumption
  <1>2. NameOf(raw) \in Name
    BY <1>1, NameType
  <1>3. event' \in Event
    BY <1>2 DEF EmitClose, Event
  <1>4. [cache EXCEPT ![raw] = NameOf(raw)] \in [Prefix -> Name]
    BY <1>1, <1>2 DEF NamespaceTypes
  <1>5. RestoreMatrix(matrix, log) \in Matrix
    BY RestoreType DEF NamespaceTypes
  <1>6. saved[Len(saved)].scope \in Scope
    <2>1. saved[Len(saved)] \in Saved
      BY PopType DEF StackTypes
    <2> QED
      BY <2>1 DEF Saved
  <1>7. /\ SubSeq(saved, 1, Len(saved) - 1) \in Seq(Saved)
        /\ Len(SubSeq(saved, 1, Len(saved) - 1)) = Len(saved) - 1
    BY PopType DEF StackTypes
  <1>8. CASE Proceeds(outcome)
    <2>1. pc' = "scan" /\ changeStack' = rest /\ saved' = SubSeq(saved, 1, Len(saved) - 1)
      BY <1>8 DEF EmitClose, Called
    <2>2. matrix' \in Matrix /\ changes' \in Log /\ cache' \in [Prefix -> Name]
      BY <1>4, <1>5, <1>8, NothingTypes DEF EmitClose, ForgetNames, NamespaceTypes
    <2>3. scope' \in Scope
      BY <1>6, <1>8 DEF EmitClose
    <2> QED
      BY <1>3, <1>7, <2>1, <2>2, <2>3
  <1>9. CASE ~Proceeds(outcome)
    <2>1. pc' = "idle" /\ cache' = [cache EXCEPT ![raw] = NameOf(raw)]
      BY <1>9 DEF EmitClose, Called
    <2>2. UNCHANGED <<changeStack, matrix, changes, scope, saved>>
      BY <1>9 DEF EmitClose
    <2> QED
      BY <1>3, <1>4, <2>1, <2>2 DEF NamespaceTypes, StackTypes
  <1> QED
    BY <1>8, <1>9

(* The log and the rest of the stack a closing tag takes.                  *)
LEMMA TopLog ==
    ASSUME SafeTypes, pc \in {"scan", "resume"}, nodeStack # <<>>
    PROVE  /\ Len(saved) >= 1
           /\ InnermostLog \in Log
           /\ SubSeq(changeStack, 1, Len(changeStack) - 1) \in Seq(Log)
           /\ SubSeq(nodeStack, 1, Len(nodeStack) - 1) \in Seq(DocPrefix)
           /\ Len(SubSeq(nodeStack, 1, Len(nodeStack) - 1)) = Len(nodeStack) - 1
  <1>1. Len(nodeStack) >= 1
    BY DEF SafeTypes, TypeOK, StackTypes
  <1>2. Len(saved) >= 1
    BY <1>1 DEF SafeTypes, TypeOK, StackTypes, DepthOK, Between
  <1>3. /\ InnermostLog \in Log
        /\ SubSeq(changeStack, 1, Len(changeStack) - 1) \in Seq(Log)
    <2>1. changeStack \in Seq(Log)
      BY DEF SafeTypes, TypeOK, StackTypes
    <2>2. CASE changeStack = <<>>
      BY <2>2, NothingTypes DEF InnermostLog
    <2>3. CASE changeStack # <<>>
      BY <2>1, <2>3, PopType DEF InnermostLog
    <2> QED
      BY <2>2, <2>3
  <1> QED
    BY <1>1, <1>2, <1>3, PopType DEF SafeTypes, TypeOK, StackTypes

LEMMA DeclareTypes ==
    ASSUME SafeTypes, Declare
    PROVE  NamespaceTypes' /\ tag' \in Tag
  <1> USE DEF SafeTypes, TypeOK
  <1> DEFINE d == Head(tag.decls)
  <1>1. d \in Declaration /\ tag' \in Tag
    <2>1. tag.decls \in Seq(Declaration) /\ tag.decls # <<>>
      BY DEF StackTypes, Tag, Declare
    <2>2. Head(tag.decls) \in Declaration /\ Tail(tag.decls) \in Seq(Declaration)
      BY <2>1
    <2> QED
      BY <2>2 DEF StackTypes, Tag, Declare
  <1>2. d.prefix \in Prefix /\ d.uri \in Uri
    BY <1>1, NamesAssumption DEF Declaration
  <1>3. PICK alias \in Prefix :
          /\ ChoosePrefix(d, alias)
          /\ IF matrix[Alias(d.prefix)] = alias
             THEN UNCHANGED <<matrix, changes, cache>>
             ELSE LET written == DeclaredKeys(d, alias) IN
                  /\ matrix' = [k \in Key |-> IF k \in written
                                              THEN DeclaredEntry(d, alias, k) ELSE matrix[k]]
                  /\ changes' = [k \in Key |-> IF k \in written
                                               THEN LogEntry(matrix, changes, k)[k] ELSE changes[k]]
                  /\ cache' = ForgetNames
          /\ scope' = [scope EXCEPT ![d.prefix] = d.uri]
    BY DEF Declare
  <1> HIDE DEF d
  <1>4. scope' \in Scope
    BY <1>2, <1>3 DEF NamespaceTypes, Scope
  <1>5. /\ uriPrefix' \in [Uri -> Prefix \cup {None}] /\ owner' \in Scope
        /\ anonCount' \in 0..Len(Anon)
    <2>1. Len(Anon) \in Nat
      BY NamesAssumption
    <2>2. CASE uriPrefix[d.uri] # None
      BY <1>3, <2>2 DEF ChoosePrefix, NamespaceTypes
    <2>3. CASE uriPrefix[d.uri] = None
      <3>1. uriPrefix' = [uriPrefix EXCEPT ![d.uri] = alias]
            /\ owner' = [owner EXCEPT ![alias] = d.uri]
        BY <1>3, <2>3 DEF ChoosePrefix
      <3>2. anonCount' = anonCount \/ anonCount' \in DOMAIN Anon
        BY <1>3, <2>3 DEF ChoosePrefix
      <3>3. anonCount' \in 0..Len(Anon)
        BY <2>1, <3>2, NamesAssumption DEF NamespaceTypes
      <3> QED
        BY <1>2, <3>1, <3>3 DEF NamespaceTypes, Scope
    <2> QED
      BY <2>2, <2>3
  <1>6. matrix' \in Matrix /\ changes' \in Log /\ cache' \in [Prefix -> Name]
    <2>1. CASE matrix[Alias(d.prefix)] = alias
      BY <1>3, <2>1 DEF NamespaceTypes
    <2>2. CASE matrix[Alias(d.prefix)] # alias
      <3>1. \A k : DeclaredEntry(d, alias, k) \in Entry
        BY <1>2, <1>3 DEF DeclaredEntry, Entry
      <3>2. matrix' \in Matrix
        BY <1>3, <2>2, <3>1 DEF NamespaceTypes, Matrix
      <3>3. \A k \in Key : LogEntry(matrix, changes, k)[k] \in Entry \cup {Unset}
        BY DEF LogEntry, NamespaceTypes, Matrix, Log
      <3>4. changes' \in Log
        BY <1>3, <2>2, <3>3 DEF NamespaceTypes, Log
      <3> QED
        BY <1>3, <2>2, <3>2, <3>4, NothingTypes DEF ForgetNames
    <2> QED
      BY <2>1, <2>2
  <1> QED
    BY <1>1, <1>4, <1>5, <1>6 DEF NamespaceTypes

LEMMA NamespaceInductive ==
    ASSUME SafeTypes, [Next]_vars
    PROVE  NamespaceTypes'
  <1> USE DEF SafeTypes, TypeOK
  <1>1. CASE Parse \/ EndNothing
    BY <1>1, ResetStateTypes, ResetRunTypes DEF Parse, EndNothing, Begin, NamespaceTypes
  <1>2. CASE Write
    <2>1. CASE streaming
      BY <1>2, <2>1, ResetRunTypes DEF Write, KeepState, nsVars, refVars, NamespaceTypes
    <2>2. CASE ~streaming
      BY <1>2, <2>2, ResetStateTypes, ResetRunTypes DEF Write, NamespaceTypes
    <2> QED
      BY <2>1, <2>2
  <1>3. CASE End
    <2>1. CASE error = None
      BY <1>3, <2>1, ResetRunTypes DEF End, nsVars, refVars, NamespaceTypes
    <2>2. CASE error # None
      BY <1>3, <2>2 DEF End, runVars, nsVars, refVars, NamespaceTypes
    <2> QED
      BY <2>1, <2>2
  <1>4. CASE Declare
    BY <1>4, DeclareTypes
  <1>5. CASE BadTag
    BY <1>5 DEF BadTag, runVars, nsVars, NamespaceTypes
  <1>6. ASSUME NEW raw \in DocPrefix, NEW empty \in BOOLEAN, NEW decls \in Declarations,
               OpenTag(raw, empty, decls)
        PROVE  NamespaceTypes'
    BY <1>6, NothingTypes DEF OpenTag, nsVars, NamespaceTypes
  <1>7. ASSUME NEW outcome \in Outcome, Misc(outcome)
        PROVE  NamespaceTypes'
    BY <1>7 DEF Misc, runVars, nsVars, NamespaceTypes
  <1>8. ASSUME NEW outcome \in Outcome, OpenEvent(outcome)
        PROVE  NamespaceTypes'
    <2>1. tag.raw \in Prefix
      BY NamesAssumption DEF StackTypes, Tag
    <2>2. [cache EXCEPT ![tag.raw] = NameOf(tag.raw)] \in [Prefix -> Name]
      BY <2>1, NameType DEF NamespaceTypes
    <2> QED
      BY <1>8, <2>2 DEF OpenEvent, nsVars, NamespaceTypes
  <1>9. ASSUME NEW outcome \in Outcome, CloseEmpty(outcome)
        PROVE  NamespaceTypes'
    <2>1. Len(saved) >= 1
      BY <1>9 DEF CloseEmpty, DepthOK
    <2>2. tag.raw \in DocPrefix /\ changes \in Log /\ changeStack \in Seq(Log)
      BY DEF StackTypes, NamespaceTypes, Tag
    <2> QED
      BY <1>9, <2>1, <2>2, EmitCloseTypes DEF CloseEmpty, NamespaceTypes
  <1>10. ASSUME NEW raw \in DocPrefix, NEW outcome \in Outcome, CloseTag(raw, outcome)
         PROVE  NamespaceTypes'
    <2>1. CASE UNCHANGED <<changes, cache, matrix, scope>>
      BY <1>10, <2>1 DEF CloseTag, NamespaceTypes
    <2>2. CASE /\ nodeStack # <<>>
               /\ EmitClose(outcome, raw, InnermostLog,
                            SubSeq(changeStack, 1, Len(changeStack) - 1))
      <3>1. pc \in {"scan", "resume"}
        BY <1>10 DEF CloseTag, Section
      <3> QED
        BY <1>10, <2>2, <3>1, TopLog, EmitCloseTypes DEF CloseTag, NamespaceTypes
    <2> QED
      BY <1>10, <2>1, <2>2 DEF CloseTag
  <1>11. ASSUME NEW partial \in BOOLEAN, ChunkEnd(partial)
         PROVE  NamespaceTypes'
    BY <1>11 DEF ChunkEnd, runVars, nsVars, refVars, NamespaceTypes
  <1>12. ASSUME NEW partial \in BOOLEAN, Eof(partial)
         PROVE  NamespaceTypes'
    BY <1>12 DEF Eof, runVars, nsVars, refVars, NamespaceTypes
  <1>13. ASSUME NEW outcome \in Outcome, AttributeWarning(outcome) \/ AttributeError(outcome)
         PROVE  NamespaceTypes'
    BY <1>13 DEF AttributeWarning, AttributeError, runVars, nsVars, NamespaceTypes
  <1>14. CASE UNCHANGED vars
    BY <1>14 DEF vars, runVars, nsVars, refVars, NamespaceTypes
  <1> QED
    BY <1>1, <1>2, <1>3, <1>4, <1>5, <1>6, <1>7, <1>8, <1>9, <1>10, <1>11, <1>12, <1>13, <1>14
    DEF Next

LEMMA StackInductive ==
    ASSUME SafeTypes, [Next]_vars
    PROVE  StackTypes' /\ DepthOK'
  <1> USE DEF SafeTypes, TypeOK
  <1>1. CASE Parse \/ EndNothing
    <2>1. ResetState /\ ResetRun /\ pc' \in {"scan", "final"}
      BY <1>1 DEF Parse, EndNothing, Begin
    <2> QED
      BY <2>1, ResetStateTypes, ResetRunTypes DEF StackTypes, DepthOK, Between
  <1>2. CASE Write
    <2>1. CASE streaming
      <3>1. UNCHANGED <<changeStack, nodeStack, saved, event>> /\ tag' \in Tag
            /\ pc = "idle" /\ pc' \in {"scan", "resume"}
        BY <1>2, <2>1, ResetRunTypes DEF Write, KeepState, docVars, refVars
      <3> QED
        BY <3>1 DEF StackTypes, DepthOK, Between
    <2>2. CASE ~streaming
      BY <1>2, <2>2, ResetStateTypes, ResetRunTypes DEF Write, StackTypes, DepthOK, Between
    <2> QED
      BY <2>1, <2>2
  <1>3. CASE End
    <2>1. UNCHANGED <<changeStack, nodeStack, saved, event>> /\ tag' \in Tag
          /\ pc = "idle" /\ pc' \in {"idle", "final"}
      BY <1>3, ResetRunTypes DEF End, docVars, refVars, StackTypes
    <2> QED
      BY <2>1 DEF StackTypes, DepthOK, Between
  <1>4. CASE Declare
    <2>1. UNCHANGED <<pc, changeStack, nodeStack, saved, event>> /\ tag'.empty = tag.empty
          /\ pc = "attrs"
      BY <1>4 DEF Declare, docVars, StackTypes, Tag
    <2> QED
      BY <1>4, <2>1, DeclareTypes DEF StackTypes, DepthOK, Between
  <1>5. CASE BadTag
    BY <1>5 DEF BadTag, Section, Fail, StackTypes, DepthOK, Between
  <1>6. ASSUME NEW raw \in DocPrefix, NEW empty \in BOOLEAN, NEW decls \in Declarations,
               OpenTag(raw, empty, decls)
        PROVE  StackTypes' /\ DepthOK'
    <2> DEFINE before == [matrix |-> matrix, scope |-> scope, name |-> None]
    <2>1. tag' = [raw |-> raw, empty |-> empty, decls |-> decls] /\ tag' \in Tag
      BY <1>6, DeclarationsType DEF OpenTag, Tag
    <2>2. before \in Saved
      BY DEF NamespaceTypes, Saved, Name
    <2> HIDE DEF before
    <2>3. saved' = Append(saved, before)
      BY <1>6 DEF OpenTag, before
    <2>4. saved' \in Seq(Saved) /\ Len(saved') = Len(saved) + 1
      BY <2>2, <2>3 DEF StackTypes
    <2>5. nodeStack' \in Seq(DocPrefix)
          /\ Len(nodeStack') = IF empty THEN Len(nodeStack) ELSE Len(nodeStack) + 1
      BY <1>6 DEF OpenTag, StackTypes
    <2>6. UNCHANGED <<changeStack, event>> /\ pc \in {"scan", "resume"} /\ pc' = "attrs"
      BY <1>6 DEF OpenTag, Section
    <2>7. StackTypes'
      BY <2>1, <2>4, <2>5, <2>6 DEF StackTypes
    <2>8. Len(changeStack) \in Nat /\ Len(nodeStack) \in Nat /\ Len(saved) \in Nat
      BY DEF StackTypes
    <2>9. DepthOK'
      BY <2>1, <2>4, <2>5, <2>6, <2>8 DEF DepthOK, Between
    <2> QED
      BY <2>7, <2>9
  <1>7. ASSUME NEW outcome \in Outcome, Misc(outcome)
        PROVE  StackTypes' /\ DepthOK'
    <2>1. UNCHANGED <<changeStack, nodeStack, saved, tag>> /\ event' \in Event
          /\ pc \in {"scan", "resume"} /\ pc' \in {"idle", "scan"}
      BY <1>7, NamesAssumption DEF Misc, Section, Called, Event, Name
    <2> QED
      BY <2>1 DEF StackTypes, DepthOK, Between
  <1>8. ASSUME NEW outcome \in Outcome, OpenEvent(outcome)
        PROVE  StackTypes' /\ DepthOK'
    <2>1. tag.raw \in DocPrefix /\ tag.raw \in Prefix /\ tag' \in Tag
      BY <1>8, NamesAssumption, NothingTypes DEF OpenEvent, StackTypes, Tag
    <2>2. NameOf(tag.raw) \in Name
      BY <2>1, NameType
    <2>3. event' \in Event
      <3>1. [kind |-> "open", raw |-> tag.raw, name |-> NameOf(tag.raw)] \in Event
        BY <2>1, <2>2 DEF Event
      <3> QED
        BY <1>8, <3>1 DEF OpenEvent, StackTypes
    <2>4. Len(saved) >= 1 /\ pc = "attrs"
      BY <1>8 DEF OpenEvent, DepthOK
    <2>5. saved' \in Seq(Saved) /\ Len(saved') = Len(saved)
      <3>1. saved[Len(saved)] \in Saved
        BY <2>4, PopType DEF StackTypes
      <3> DEFINE named == [saved[Len(saved)] EXCEPT !.name = NameOf(tag.raw)]
      <3>2. named \in Saved
        BY <2>2, <3>1 DEF Saved
      <3>3. CASE saved' = saved
        BY <3>3 DEF StackTypes
      <3>4. CASE saved' = [saved EXCEPT ![Len(saved)].name = NameOf(tag.raw)]
        <4>1. saved' = [saved EXCEPT ![Len(saved)] = named]
          BY <3>4
        <4>2. saved \in Seq(Saved) /\ Len(saved) \in 1..Len(saved)
          BY <2>4 DEF StackTypes
        <4> HIDE DEF named
        <4> QED
          BY <3>2, <4>1, <4>2, ExceptSeq
      <3> QED
        BY <1>8, <3>3, <3>4 DEF OpenEvent
    <2>6. /\ changeStack' \in Seq(Log) /\ nodeStack' = nodeStack
          /\ Len(changeStack') = IF tag.empty THEN Len(changeStack) ELSE Len(changeStack) + 1
      <3>1. changeStack' = PushChanges /\ nodeStack' = nodeStack
        BY <1>8 DEF OpenEvent
      <3>2. changeStack \in Seq(Log) /\ changes \in Log
        BY DEF StackTypes, NamespaceTypes
      <3> QED
        BY <3>1, <3>2 DEF PushChanges
    <2>7. StackTypes'
      BY <2>1, <2>3, <2>5, <2>6 DEF StackTypes
    <2>8. pc' \in {"idle", "scan"} \/ (pc' = "empty" /\ tag.empty /\ tag' = tag)
      BY <1>8 DEF OpenEvent, Called, Fail
    <2>9. Len(changeStack) \in Nat /\ Len(nodeStack) \in Nat /\ Len(saved) \in Nat
      BY DEF StackTypes
    <2>10. DepthOK'
      <3>1. CASE tag.empty
        BY <2>4, <2>5, <2>6, <2>8, <2>9, <3>1 DEF DepthOK, Between
      <3>2. CASE ~tag.empty
        BY <2>4, <2>5, <2>6, <2>8, <2>9, <3>2 DEF DepthOK, Between
      <3> QED
        BY <3>1, <3>2
    <2> QED
      BY <2>7, <2>10
  <1>9. ASSUME NEW outcome \in Outcome, CloseEmpty(outcome)
        PROVE  StackTypes' /\ DepthOK'
    <2>1. Len(saved) >= 1 /\ pc = "empty" /\ tag.empty
      BY <1>9 DEF CloseEmpty, DepthOK
    <2>2. tag.raw \in DocPrefix /\ changes \in Log /\ changeStack \in Seq(Log)
      BY DEF StackTypes, NamespaceTypes, Tag
    <2>3. /\ event' \in Event /\ changeStack' = changeStack /\ saved' \in Seq(Saved)
          /\ pc' \in {"scan", "idle"} /\ Len(saved') >= Len(saved) - 1
      <3>1. EmitClose(outcome, tag.raw, changes, changeStack)
        BY <1>9 DEF CloseEmpty
      <3>2. /\ event' \in Event /\ saved' \in Seq(Saved)
            /\ \/ pc' = "scan" /\ changeStack' = changeStack /\ Len(saved') = Len(saved) - 1
               \/ pc' = "idle" /\ changeStack' = changeStack /\ saved' = saved
        BY <2>1, <2>2, <3>1, EmitCloseTypes
      <3>3. Len(saved) \in Nat
        BY DEF StackTypes
      <3> QED
        BY <3>2, <3>3
    <2>4. nodeStack' = nodeStack /\ tag' \in Tag
      BY <1>9, NothingTypes DEF CloseEmpty
    <2>5. Len(changeStack) \in Nat /\ Len(nodeStack) \in Nat /\ Len(saved) \in Nat
      BY DEF StackTypes
    <2>6. Len(saved') \in Nat
      BY <2>3
    <2>7. StackTypes'
      BY <2>3, <2>4 DEF StackTypes
    <2>8. DepthOK'
      BY <2>1, <2>3, <2>4, <2>5, <2>6 DEF DepthOK, Between
    <2> QED
      BY <2>7, <2>8
  <1>10. ASSUME NEW raw \in DocPrefix, NEW outcome \in Outcome, CloseTag(raw, outcome)
         PROVE  StackTypes' /\ DepthOK'
    <2>1. pc \in {"scan", "resume"} /\ tag' = tag
      BY <1>10 DEF CloseTag, Section
    <2>2. Len(changeStack) \in Nat /\ Len(nodeStack) \in Nat /\ Len(saved) \in Nat
      BY DEF StackTypes
    <2>3. CASE /\ pc' = "idle" /\ UNCHANGED <<changeStack, saved, event>>
               /\ nodeStack' = nodeStack
      BY <2>1, <2>3 DEF StackTypes, DepthOK, Between
    <2>4. CASE /\ pc' = "idle" /\ UNCHANGED <<changeStack, saved, event>>
               /\ nodeStack # <<>> /\ nodeStack' = SubSeq(nodeStack, 1, Len(nodeStack) - 1)
      <3>1. nodeStack' \in Seq(DocPrefix) /\ Len(nodeStack') = Len(nodeStack) - 1
        BY <2>1, <2>4, TopLog
      <3> QED
        BY <2>1, <2>2, <2>4, <3>1 DEF StackTypes, DepthOK, Between
    <2>5. CASE /\ nodeStack # <<>> /\ nodeStack' = SubSeq(nodeStack, 1, Len(nodeStack) - 1)
               /\ EmitClose(outcome, raw, InnermostLog,
                            SubSeq(changeStack, 1, Len(changeStack) - 1))
      <3>1. /\ nodeStack' \in Seq(DocPrefix) /\ Len(nodeStack') = Len(nodeStack) - 1
            /\ Len(saved) >= 1
        BY <2>1, <2>5, TopLog
      <3>2. /\ event' \in Event /\ changeStack' \in Seq(Log) /\ saved' \in Seq(Saved)
            /\ pc' \in {"scan", "idle"}
            /\ Len(saved') >= Len(saved) - 1
        <4>1. /\ InnermostLog \in Log
              /\ SubSeq(changeStack, 1, Len(changeStack) - 1) \in Seq(Log)
          BY <2>1, <2>5, TopLog
        <4>2. /\ event' \in Event /\ changeStack' \in Seq(Log) /\ saved' \in Seq(Saved)
              /\ \/ /\ pc' = "scan" /\ Len(saved') = Len(saved) - 1
                    /\ changeStack' = SubSeq(changeStack, 1, Len(changeStack) - 1)
                 \/ pc' = "idle" /\ changeStack' = changeStack /\ saved' = saved
          BY <2>5, <3>1, <4>1, EmitCloseTypes
        <4> QED
          BY <2>2, <4>1, <4>2
      <3>3. Len(saved') \in Nat
        BY <3>2
      <3>4. StackTypes'
        BY <2>1, <3>1, <3>2 DEF StackTypes
      <3>5. DepthOK'
        BY <2>1, <2>2, <3>1, <3>2, <3>3 DEF DepthOK, Between
      <3> QED
        BY <3>4, <3>5
    <2> QED
      BY <1>10, <2>3, <2>4, <2>5 DEF CloseTag, Fail
  <1>11. ASSUME NEW partial \in BOOLEAN, ChunkEnd(partial)
         PROVE  StackTypes' /\ DepthOK'
    BY <1>11 DEF ChunkEnd, refVars, StackTypes, DepthOK, Between
  <1>12. ASSUME NEW partial \in BOOLEAN, Eof(partial)
         PROVE  StackTypes' /\ DepthOK'
    BY <1>12 DEF Eof, refVars, StackTypes, DepthOK, Between
  <1>13. ASSUME NEW outcome \in Outcome, AttributeWarning(outcome) \/ AttributeError(outcome)
         PROVE  StackTypes' /\ DepthOK'
    <2>1. UNCHANGED <<changeStack, nodeStack, saved, event, tag>>
          /\ pc = "attrs" /\ pc' \in {"idle", "attrs"}
      BY <1>13 DEF AttributeWarning, AttributeError, CalledWithin
    <2>2. Len(nodeStack) \in Nat /\ Len(saved) \in Nat /\ tag.empty \in BOOLEAN
      BY DEF StackTypes, Tag
    <2> QED
      BY <2>1, <2>2 DEF StackTypes, DepthOK, Between
  <1>14. CASE UNCHANGED vars
    BY <1>14 DEF vars, docVars, refVars, StackTypes, DepthOK, Between
  <1> QED
    BY <1>1, <1>2, <1>3, <1>4, <1>5, <1>6, <1>7, <1>8, <1>9, <1>10, <1>11, <1>12, <1>13, <1>14
    DEF Next

(* Every variable keeps its type, and the stacks their depths.             *)
THEOREM TypesAndDepths == Spec => []SafeTypes
  <1>1. Init => SafeTypes
    BY InitTypes
  <1>2. SafeTypes /\ [Next]_vars => SafeTypes'
    BY ControlInductive, NamespaceInductive, StackInductive DEF SafeTypes, TypeOK
  <1> QED
    BY <1>1, <1>2, PTL DEF Spec

(* Every variable keeps its type, for any number of tags and documents.    *)
THEOREM TypeCorrect == Spec => []TypeOK
  <1>1. SafeTypes => TypeOK
    BY DEF SafeTypes
  <1> QED
    BY <1>1, TypesAndDepths, PTL

-----------------------------------------------------------------------------
(* The parser reads nothing after an error, but for the one it survives.   *)
Reading == pc # "idle" => error \in {None, WrongXml}

(* The two directions of the map of known uris agree.                      *)
Owners == \A p \in Prefix : owner[p] # None => uriPrefix[owner[p]] = p

(* The change logs and the saved scopes, against the open tags, also while *)
(* a tag is being read.                                                    *)
Depths ==
    Healthy =>
        /\ Between => Len(changeStack) = Len(nodeStack) /\ Len(saved) = Len(nodeStack)
        /\ pc \in {"attrs", "empty"} => Len(saved) = Len(changeStack) + 1
        /\ pc \in {"attrs", "empty"} /\ tag.empty => Len(changeStack) = Len(nodeStack)
        /\ pc = "attrs" /\ ~tag.empty => Len(nodeStack) = Len(changeStack) + 1

(* An open tag has the name its content would give it.                     *)
Names ==
    Healthy =>
        /\ \A i \in DOMAIN changeStack :
              saved[i].name = Normalize(MatrixWithin(i), nodeStack[i])
        /\ pc = "empty" => saved[Len(saved)].name = Normalize(matrix, tag.raw)
        /\ pc = "attrs" /\ ~tag.empty => nodeStack[Len(nodeStack)] = tag.raw

(* The bindings s are faithful in the matrix m.                            *)
Faithful(m, s) ==
    \A p \in Prefix : s[p] # None => /\ uriPrefix[s[p]] # None
                                     /\ m[Alias(p)] = uriPrefix[s[p]]
Aliases ==
    Healthy => /\ Faithful(matrix, scope)
               /\ \A i \in DOMAIN saved : Faithful(saved[i].matrix, saved[i].scope)

Control == SafeTypes /\ Reading
Scopes == Control /\ CacheFresh /\ Owners /\ Depths
Logs == Scopes /\ UndoLog /\ Names
IInv == Logs /\ Aliases

-----------------------------------------------------------------------------
(* Errors *)

LEMMA ReadingStep == SafeTypes /\ Reading /\ [Next]_vars => Reading'
  <1> SUFFICES ASSUME SafeTypes, Reading, [Next]_vars PROVE Reading'
    OBVIOUS
  <1>1. CASE Parse \/ EndNothing
    BY <1>1 DEF Parse, EndNothing, Begin, ResetState, Reading
  <1>2. CASE Write
    <2>1. CASE streaming
      BY <1>2, <2>1 DEF Write, MayRead, KeepState, docVars, Reading
    <2>2. CASE ~streaming
      BY <1>2, <2>2 DEF Write, ResetState, Reading
    <2> QED
      BY <2>1, <2>2
  <1>3. CASE End
    BY <1>3 DEF End, docVars, Reading
  <1>4. CASE Declare
    BY <1>4 DEF Declare, docVars, Reading
  <1>5. CASE BadTag
    BY <1>5 DEF BadTag, Fail, Reading
  <1>6. ASSUME NEW raw \in DocPrefix, NEW empty \in BOOLEAN, NEW decls \in Declarations,
               OpenTag(raw, empty, decls)
        PROVE  Reading'
    BY <1>6 DEF OpenTag, Section, Reading
  <1>7. ASSUME NEW outcome \in Outcome,
               Misc(outcome) \/ OpenEvent(outcome) \/ CloseEmpty(outcome)
        PROVE  Reading'
    BY <1>7 DEF Misc, OpenEvent, CloseEmpty, EmitClose, Section, Called, Fail, Reading
  <1>8. ASSUME NEW raw \in DocPrefix, NEW outcome \in Outcome, CloseTag(raw, outcome)
        PROVE  Reading'
    BY <1>8 DEF CloseTag, EmitClose, Section, Called, Fail, Reading
  <1>9. ASSUME NEW partial \in BOOLEAN, ChunkEnd(partial) \/ Eof(partial)
        PROVE  Reading'
    BY <1>9 DEF ChunkEnd, Eof, Reading
  <1>10. ASSUME NEW outcome \in Outcome, AttributeWarning(outcome) \/ AttributeError(outcome)
         PROVE  Reading'
    BY <1>10 DEF AttributeWarning, AttributeError, CalledWithin, Reading
  <1>11. CASE UNCHANGED vars
    BY <1>11 DEF vars, docVars, Reading
  <1> QED
    BY <1>1, <1>2, <1>3, <1>4, <1>5, <1>6, <1>7, <1>8, <1>9, <1>10, <1>11 DEF Next

LEMMA ControlInvariant == Spec => []Control
  <1>1. Init => Reading
    BY DEF Init, Reading
  <1>2. SafeTypes /\ Reading /\ [Next]_vars => Reading'
    BY ReadingStep
  <1> QED
    BY <1>1, <1>2, TypesAndDepths, PTL DEF Spec, Control

(* A step of the parser at rest, after an error, that starts no document.  *)
LEMMA IdleStep ==
    ASSUME Control, [Next]_vars, error # None, runs' = runs, pc = "idle"
    PROVE  pc' = "idle" /\ UNCHANGED <<error, event>>
  <1>1. ~ResetState
    BY DEF ResetState, Control, SafeTypes, TypeOK, ControlTypes
  <1>2. End \/ UNCHANGED vars
    BY <1>1 DEF Next, Parse, EndNothing, Begin, Write, MayRead, Declare, BadTag, OpenTag, Misc,
                OpenEvent, CloseEmpty, CloseTag, Section, ChunkEnd, Eof,
                AttributeWarning, AttributeError, CalledWithin
  <1> QED
    BY <1>2 DEF End, vars, docVars

(* No step that reads takes an error away.                                 *)
LEMMA ErrorStep ==
    ASSUME Control, [Next]_vars, error # None, runs' = runs, pc # "idle"
    PROVE  error' # None
  <1>1. ASSUME NEW kind \in Errors PROVE kind # None
    BY NamesAssumption
  <1>2. ASSUME NEW kind \in FatalErrors, Fail(kind) PROVE error' # None
    BY <1>1, <1>2 DEF Fail, Errors
  <1>3. {"invalid tag", "missing namespace", "missing open tag", "closing tag mismatch"}
           \subseteq FatalErrors
    BY DEF FatalErrors
  <1>4. CASE UNCHANGED error
    BY <1>4
  <1>5. CASE BadTag
    BY <1>2, <1>3, <1>5 DEF BadTag
  <1>6. ASSUME NEW outcome \in Outcome, OpenEvent(outcome)
        PROVE  error' # None
    BY <1>2, <1>3, <1>6 DEF OpenEvent
  <1>7. ASSUME NEW raw \in DocPrefix, NEW outcome \in Outcome, CloseTag(raw, outcome)
        PROVE  error' # None
    BY <1>2, <1>3, <1>7 DEF CloseTag
  <1>8. ASSUME NEW partial \in BOOLEAN, Eof(partial)
        PROVE  error' # None
    BY <1>8 DEF Eof
  <1>9. ASSUME NEW outcome \in Outcome, AttributeError(outcome)
        PROVE  error' # None
    BY <1>1, <1>9 DEF AttributeError, Errors
  <1>10. ASSUME NEW outcome \in Outcome,
                Misc(outcome) \/ CloseEmpty(outcome) \/ AttributeWarning(outcome)
         PROVE  UNCHANGED error
    BY <1>10 DEF Misc, CloseEmpty, AttributeWarning
  <1> QED
    BY <1>4, <1>5, <1>6, <1>7, <1>8, <1>9, <1>10
    DEF Next, vars, docVars, Parse, EndNothing, Begin, Write, End, Declare, OpenTag, ChunkEnd

(* An error stays until the next document, no further chunk is read, and   *)
(* what is still reported after the one error the parser survives is in    *)
(* the text it has at hand.                                                *)
THEOREM ErrorsKept == Spec => ErrorKept
  <1>1. ASSUME Control, [Next]_vars, error # None, runs' = runs
        PROVE  /\ error' # None
               /\ pc = "idle" => pc' = "idle"
               /\ event' # event => pc # "idle" /\ error = WrongXml
    <2>1. CASE pc = "idle"
      BY <1>1, <2>1, IdleStep
    <2>2. CASE pc # "idle"
      BY <1>1, <2>2, ErrorStep DEF Control, Reading
    <2> QED
      BY <2>1, <2>2
  <1>2. Control /\ [Next]_vars =>
          [error # None /\ runs' = runs =>
              /\ error' # None
              /\ pc = "idle" => pc' = "idle"
              /\ event' # event => pc # "idle" /\ error = WrongXml]_vars
    BY <1>1
  <1> QED
    BY <1>2, ControlInvariant, PTL DEF Spec, ErrorKept

-----------------------------------------------------------------------------
(* What a step does to the scopes, whatever action takes it, as long as    *)
(* the document stays healthy: it starts a document, leaves the scopes     *)
(* alone, or is one of the steps of a tag.                                 *)

scopeVars == <<changeStack, nodeStack, saved, nsVars, scope>>

Restarts == ResetState /\ cache' = NoNames /\ pc' \in {"scan", "final"}
Rests == Between /\ Between' /\ UNCHANGED scopeVars /\ cache' \in {cache, NoNames}
Stays == UNCHANGED <<pc, changeStack, nodeStack, saved, uriPrefix, owner, matrix, scope,
                     changes, cache, tag>>
Opens == \E raw \in DocPrefix, empty \in BOOLEAN, decls \in Declarations :
            OpenTag(raw, empty, decls)
Reports ==
    /\ pc = "attrs" /\ tag.raw \in DocPrefix /\ NameOf(tag.raw) # None
    /\ changeStack' = PushChanges
    /\ cache' = [cache EXCEPT ![tag.raw] = NameOf(tag.raw)]
    /\ saved' = [saved EXCEPT ![Len(saved)].name = NameOf(tag.raw)]
    /\ IF tag.empty THEN pc' = "empty" /\ tag' = tag ELSE pc' = "scan"
    /\ UNCHANGED <<nodeStack, changes, nsVars, scope>>
Closes(raw, log, rest) ==
    /\ raw \in DocPrefix
    /\ event' = [kind |-> "close", raw |-> raw, name |-> NameOf(raw)]
    /\ pc' = "scan"
    /\ changeStack' = rest
    /\ matrix' = RestoreMatrix(matrix, log)
    /\ cache' \in {NoNames, [cache EXCEPT ![raw] = NameOf(raw)]}
    /\ cache' # NoNames => matrix' = matrix
    /\ scope' = saved[Len(saved)].scope
    /\ saved' = SubSeq(saved, 1, Len(saved) - 1)
    /\ UNCHANGED <<uriPrefix, owner>>
ClosesEmpty ==
    /\ pc = "empty" /\ nodeStack' = nodeStack
    /\ Closes(tag.raw, changes, changeStack)
ClosesTop ==
    /\ pc \in {"scan", "resume"} /\ nodeStack # <<>>
    /\ nodeStack' = SubSeq(nodeStack, 1, Len(nodeStack) - 1)
    /\ Closes(nodeStack[Len(nodeStack)], InnermostLog,
              SubSeq(changeStack, 1, Len(changeStack) - 1))

LEMMA RestoreNothing ==
    ASSUME NEW m \in Matrix
    PROVE  RestoreMatrix(m, NoChanges) = m
  BY DEF RestoreMatrix, NoChanges, Matrix

LEMMA EmitCloseCloses ==
    ASSUME Control, NEW outcome \in Outcome, NEW raw \in DocPrefix, NEW log, NEW rest,
           EmitClose(outcome, raw, log, rest), UNCHANGED <<uriPrefix, owner>>, Healthy'
    PROVE  Closes(raw, log, rest)
  <1>1. Proceeds(outcome)
    BY DEF EmitClose, Called, Healthy
  <1>2. matrix \in Matrix
    BY DEF Control, SafeTypes, TypeOK, NamespaceTypes
  <1>3. CASE log = NoChanges
    BY <1>1, <1>2, <1>3, RestoreNothing DEF EmitClose, Called, Closes
  <1>4. CASE log # NoChanges
    BY <1>1, <1>4 DEF EmitClose, Called, Closes, ForgetNames
  <1> QED
    BY <1>3, <1>4

LEMMA FailureHurts ==
    ASSUME NEW kind \in FatalErrors, Fail(kind)
    PROVE  ~Healthy'
  BY DEF Fail, Healthy

(* A tag that is being read, or a document that is, has met no error that  *)
(* ends it.                                                                *)
LEMMA ReadingHealthy ==
    ASSUME Control, pc # "idle", ~torn
    PROVE  Healthy
  BY NamesAssumption DEF Control, Reading, Healthy, Errors, FatalErrors, WrongXml

LEMMA Steps ==
    ASSUME Control, [Next]_vars, Healthy'
    PROVE  \/ Restarts
           \/ /\ Healthy
              /\ Rests \/ Stays \/ Opens \/ Declare \/ Reports \/ ClosesEmpty \/ ClosesTop
  <1> USE DEF Healthy
  <1>1. CASE Parse \/ EndNothing
    BY <1>1 DEF Parse, EndNothing, Begin, ResetRun, Restarts
  <1>2. CASE Write
    <2>1. CASE streaming
      BY <1>2, <2>1 DEF Write, KeepState, ResetRun, docVars, refVars, nsVars, Rests, scopeVars, Between
    <2>2. CASE ~streaming
      BY <1>2, <2>2 DEF Write, ResetRun, Restarts
    <2> QED
      BY <2>1, <2>2
  <1>3. CASE End
    BY <1>3 DEF End, ResetRun, runVars, docVars, refVars, nsVars, Rests, scopeVars, Between
  <1>4. CASE Declare
    BY <1>4 DEF Declare, docVars
  <1>5. CASE BadTag
    BY <1>5, FailureHurts DEF BadTag, FatalErrors
  <1>6. ASSUME NEW raw \in DocPrefix, NEW empty \in BOOLEAN, NEW decls \in Declarations,
               OpenTag(raw, empty, decls)
        PROVE  Healthy /\ Opens
    BY <1>6 DEF OpenTag, Opens
  <1>7. ASSUME NEW outcome \in Outcome, Misc(outcome)
        PROVE  Healthy /\ Rests
    BY <1>7 DEF Misc, Section, Called, runVars, nsVars, Rests, scopeVars, Between
  <1>8. ASSUME NEW outcome \in Outcome, OpenEvent(outcome)
        PROVE  Healthy /\ Reports
    <2>1. NameOf(tag.raw) # None /\ Called(outcome, IF tag.empty THEN "empty" ELSE "scan")
      BY <1>8, FailureHurts DEF OpenEvent, FatalErrors
    <2>2. Proceeds(outcome) /\ Healthy
      BY <1>8, <2>1 DEF OpenEvent, Called
    <2>3. tag.raw \in DocPrefix
      BY DEF Control, SafeTypes, TypeOK, StackTypes, Tag
    <2> QED
      BY <1>8, <2>1, <2>2, <2>3 DEF OpenEvent, Called, Reports
  <1>9. ASSUME NEW outcome \in Outcome, CloseEmpty(outcome)
        PROVE  Healthy /\ ClosesEmpty
    <2>1. tag.raw \in DocPrefix
      BY DEF Control, SafeTypes, TypeOK, StackTypes, Tag
    <2> QED
      BY <1>9, <2>1, EmitCloseCloses DEF CloseEmpty, EmitClose, Called, ClosesEmpty
  <1>10. ASSUME NEW raw \in DocPrefix, NEW outcome \in Outcome, CloseTag(raw, outcome)
         PROVE  Healthy /\ ClosesTop
    <2>1. /\ pc \in {"scan", "resume"} /\ nodeStack # <<>> /\ raw = nodeStack[Len(nodeStack)]
          /\ nodeStack' = SubSeq(nodeStack, 1, Len(nodeStack) - 1)
          /\ EmitClose(outcome, raw, InnermostLog,
                       SubSeq(changeStack, 1, Len(changeStack) - 1))
          /\ UNCHANGED <<error, uriPrefix, owner>>
      <3>1. ~Fail("missing open tag") /\ ~Fail("closing tag mismatch")
            /\ ~Fail("missing namespace")
        BY FailureHurts DEF FatalErrors
      <3> QED
        BY <1>10, <3>1 DEF CloseTag, Section
    <2> QED
      BY <2>1, EmitCloseCloses DEF EmitClose, Called, ClosesTop
  <1>11. ASSUME NEW partial \in BOOLEAN, ChunkEnd(partial)
         PROVE  Healthy /\ Rests
    BY <1>11 DEF ChunkEnd, runVars, refVars, nsVars, Rests, scopeVars, Between
  <1>12. ASSUME NEW partial \in BOOLEAN, Eof(partial)
         PROVE  Healthy /\ Rests
    <2>1. pc # "idle" /\ ~torn
      BY <1>12 DEF Eof, refVars
    <2> QED
      BY <1>12, <2>1, ReadingHealthy DEF Eof, runVars, refVars, nsVars, Rests, scopeVars, Between
  <1>13. ASSUME NEW outcome \in Outcome, AttributeWarning(outcome) \/ AttributeError(outcome)
         PROVE  Healthy /\ Stays
    <2>1. pc # "idle" /\ ~torn /\ pc' = pc
      BY <1>13 DEF AttributeWarning, AttributeError, CalledWithin
    <2> QED
      BY <1>13, <2>1, ReadingHealthy DEF AttributeWarning, AttributeError, runVars, nsVars, Stays
  <1>14. CASE UNCHANGED vars
    BY <1>14 DEF vars, docVars, runVars, nsVars, refVars, Stays
  <1> QED
    BY <1>1, <1>2, <1>3, <1>4, <1>5, <1>6, <1>7, <1>8, <1>9, <1>10, <1>11, <1>12, <1>13, <1>14
    DEF Next

-----------------------------------------------------------------------------
(* Memoised names *)

LEMMA NameFresh ==
    ASSUME CacheFresh, NEW p \in Prefix
    PROVE  NameOf(p) = Normalize(matrix, p)
  BY DEF CacheFresh, NameOf

FreshSteps ==
    \/ cache' = NoNames
    \/ UNCHANGED <<matrix, cache>>
    \/ /\ UNCHANGED matrix
       /\ \E p \in Prefix : cache' = [cache EXCEPT ![p] = NameOf(p)]

LEMMA FreshStaysFresh ==
    ASSUME SafeTypes, CacheFresh, FreshSteps
    PROVE  CacheFresh'
  <1>1. cache \in [Prefix -> Name]
    BY DEF SafeTypes, TypeOK, NamespaceTypes
  <1>2. CASE cache' = NoNames
    BY <1>2 DEF NoNames, CacheFresh
  <1>3. CASE UNCHANGED <<matrix, cache>>
    BY <1>3 DEF CacheFresh, Normalize
  <1>4. ASSUME UNCHANGED matrix, NEW p \in Prefix, cache' = [cache EXCEPT ![p] = NameOf(p)]
        PROVE  CacheFresh'
    BY <1>1, <1>4, NameFresh DEF CacheFresh, Normalize
  <1> QED
    BY <1>2, <1>3, <1>4 DEF FreshSteps

LEMMA EveryStepFresh ==
    ASSUME SafeTypes, [Next]_vars
    PROVE  FreshSteps
  <1> USE DEF FreshSteps
  <1>0. tag.raw \in Prefix /\ DocPrefix \subseteq Prefix
    BY NamesAssumption DEF SafeTypes, TypeOK, StackTypes, Tag
  <1>1. CASE Parse \/ EndNothing \/ Write
    BY <1>1 DEF Parse, EndNothing, Begin, Write, ResetRun
  <1>2. CASE End
    BY <1>2 DEF End, ResetRun, runVars, nsVars
  <1>3. CASE Declare
    BY <1>3 DEF Declare, ForgetNames
  <1>4. CASE BadTag
    BY <1>4 DEF BadTag, runVars, nsVars
  <1>5. ASSUME NEW raw \in DocPrefix, NEW empty \in BOOLEAN, NEW decls \in Declarations,
               OpenTag(raw, empty, decls)
        PROVE  FreshSteps
    BY <1>5 DEF OpenTag, nsVars
  <1>6. ASSUME NEW outcome \in Outcome, Misc(outcome)
        PROVE  FreshSteps
    BY <1>6 DEF Misc, runVars, nsVars
  <1>7. ASSUME NEW outcome \in Outcome, OpenEvent(outcome)
        PROVE  FreshSteps
    BY <1>0, <1>7 DEF OpenEvent, nsVars
  <1>8. ASSUME NEW outcome \in Outcome, NEW raw \in Prefix, NEW log, NEW rest,
               EmitClose(outcome, raw, log, rest)
        PROVE  FreshSteps
    BY <1>8 DEF EmitClose, ForgetNames
  <1>9. ASSUME NEW outcome \in Outcome, CloseEmpty(outcome)
        PROVE  FreshSteps
    BY <1>0, <1>8, <1>9 DEF CloseEmpty
  <1>10. ASSUME NEW raw \in DocPrefix, NEW outcome \in Outcome, CloseTag(raw, outcome)
         PROVE  FreshSteps
    BY <1>0, <1>8, <1>10 DEF CloseTag
  <1>11. ASSUME NEW partial \in BOOLEAN, ChunkEnd(partial) \/ Eof(partial)
         PROVE  FreshSteps
    BY <1>11 DEF ChunkEnd, Eof, runVars, nsVars
  <1>12. ASSUME NEW outcome \in Outcome, AttributeWarning(outcome) \/ AttributeError(outcome)
         PROVE  FreshSteps
    BY <1>12 DEF AttributeWarning, AttributeError, runVars, nsVars
  <1>13. CASE UNCHANGED vars
    BY <1>13 DEF vars, runVars, nsVars
  <1> QED
    BY <1>1, <1>2, <1>3, <1>4, <1>5, <1>6, <1>7, <1>9, <1>10, <1>11, <1>12, <1>13 DEF Next

(* The name an event carries is never an outdated one, whatever was        *)
(* declared, undone or cut into chunks since it was memoised.              *)
THEOREM NamesFresh == Spec => []CacheFresh
  <1>1. Init => CacheFresh
    BY DEF Init, NoNames, CacheFresh
  <1>2. SafeTypes /\ CacheFresh /\ [Next]_vars => CacheFresh'
    BY FreshStaysFresh, EveryStepFresh
  <1> QED
    BY <1>1, <1>2, TypesAndDepths, PTL DEF Spec

-----------------------------------------------------------------------------
(* The map of known uris *)

LEMMA ChoosePrefixOwners ==
    ASSUME SafeTypes, Owners, NEW d \in Declaration, NEW alias \in Prefix,
           ChoosePrefix(d, alias)
    PROVE  /\ Owners'
           /\ uriPrefix'[d.uri] = alias
           /\ \A u \in Uri : uriPrefix[u] # None => uriPrefix'[u] = uriPrefix[u]
  <1> USE DEF SafeTypes, TypeOK, NamespaceTypes
  <1>1. d.uri \in Uri /\ alias # None
    BY NamesAssumption DEF Declaration
  <1>2. CASE uriPrefix[d.uri] # None
    BY <1>2 DEF ChoosePrefix, Owners
  <1>3. CASE uriPrefix[d.uri] = None
    <2>1. uriPrefix' = [uriPrefix EXCEPT ![d.uri] = alias]
          /\ owner' = [owner EXCEPT ![alias] = d.uri]
      BY <1>3 DEF ChoosePrefix
    <2>2. ASSUME NEW p \in Prefix, owner'[p] # None
          PROVE  uriPrefix'[owner'[p]] = p
      <3>1. CASE p = alias
        BY <1>1, <2>1, <3>1 DEF Scope
      <3>2. CASE p # alias
        <4>1. owner'[p] = owner[p] /\ uriPrefix[owner[p]] = p /\ owner[p] \in Uri
          BY <2>1, <2>2, <3>2 DEF Owners, Scope
        <4>2. owner[p] # d.uri
          BY <1>3, <4>1, NamesAssumption
        <4> QED
          BY <2>1, <4>1, <4>2
      <3> QED
        BY <3>1, <3>2
    <2>3. Owners'
      BY <2>2 DEF Owners
    <2> QED
      BY <1>1, <1>3, <2>1, <2>3
  <1> QED
    BY <1>2, <1>3

LEMMA DeclaredTyped ==
    ASSUME SafeTypes, tag.decls # <<>>
    PROVE  Head(tag.decls) \in Declaration
  BY DEF SafeTypes, TypeOK, StackTypes, Tag

LEMMA OwnersStep ==
    ASSUME SafeTypes, Owners, [Next]_vars
    PROVE  Owners'
  <1>1. CASE Declare
    BY <1>1, DeclaredTyped, ChoosePrefixOwners DEF Declare
  <1>2. CASE UNCHANGED <<uriPrefix, owner>>
    BY <1>2 DEF Owners
  <1>3. Declare \/ UNCHANGED <<uriPrefix, owner>>
    BY DEF Next, vars, nsVars, Parse, EndNothing, Begin, Write, KeepState, ResetState, End,
           BadTag, OpenTag, Misc, OpenEvent, CloseEmpty, CloseTag, ChunkEnd, Eof,
           AttributeWarning, AttributeError
  <1> QED
    BY <1>1, <1>2, <1>3

LEMMA InitOwners == Init => Owners
  <1> SUFFICES ASSUME Init, NEW p \in Prefix, owner[p] # None
               PROVE  uriPrefix[owner[p]] = p
    BY DEF Owners
  <1>1. owner[p] = IF \E u \in Uri : Config[u] = p
                   THEN CHOOSE u \in Uri : Config[u] = p ELSE None
    BY DEF Init
  <1> QED
    BY <1>1 DEF Init

-----------------------------------------------------------------------------
(* Depths *)

LEMMA Lengths ==
    ASSUME Control
    PROVE  /\ Len(changeStack) \in Nat /\ Len(nodeStack) \in Nat /\ Len(saved) \in Nat
           /\ DOMAIN changeStack = 1..Len(changeStack) /\ DOMAIN saved = 1..Len(saved)
           /\ tag.empty \in BOOLEAN
  BY DEF Control, SafeTypes, TypeOK, StackTypes, Tag

(* The stacks after a tag is opened.                                       *)
LEMMA OpensStacks ==
    ASSUME Control, NEW raw \in DocPrefix, NEW empty \in BOOLEAN, NEW decls \in Declarations,
           OpenTag(raw, empty, decls)
    PROVE  /\ pc \in {"scan", "resume"} /\ pc' = "attrs"
           /\ tag'.empty = empty /\ tag'.raw = raw /\ changes' = NoChanges
           /\ UNCHANGED <<changeStack, nsVars, scope>>
           /\ Len(saved') = Len(saved) + 1
           /\ \A i \in 1..Len(saved) : saved'[i] = saved[i]
           /\ saved'[Len(saved) + 1].matrix = matrix
           /\ saved'[Len(saved) + 1].scope = scope
           /\ \A i \in 1..Len(nodeStack) : nodeStack'[i] = nodeStack[i]
           /\ empty => Len(nodeStack') = Len(nodeStack)
           /\ ~empty => /\ Len(nodeStack') = Len(nodeStack) + 1
                        /\ nodeStack'[Len(nodeStack')] = raw
  <1> DEFINE before == [matrix |-> matrix, scope |-> scope, name |-> None]
  <1>1. saved \in Seq(Saved) /\ nodeStack \in Seq(DocPrefix) /\ before \in Saved
    BY DEF Control, SafeTypes, TypeOK, StackTypes, NamespaceTypes, Saved, Name
  <1>2. before.matrix = matrix /\ before.scope = scope
    OBVIOUS
  <1>3. saved' = Append(saved, before)
    BY DEF OpenTag
  <1> HIDE DEF before
  <1>4. /\ Len(saved') = Len(saved) + 1 /\ saved'[Len(saved) + 1] = before
        /\ \A i \in 1..Len(saved) : saved'[i] = saved[i]
    BY <1>1, <1>3
  <1>5. /\ \A i \in 1..Len(nodeStack) : nodeStack'[i] = nodeStack[i]
        /\ empty => Len(nodeStack') = Len(nodeStack)
        /\ ~empty => /\ Len(nodeStack') = Len(nodeStack) + 1
                     /\ nodeStack'[Len(nodeStack')] = raw
    BY <1>1 DEF OpenTag
  <1> QED
    BY <1>2, <1>4, <1>5 DEF OpenTag, Section

(* The stacks after a tag is reported.                                     *)
LEMMA ReportsStacks ==
    ASSUME Control, Reports
    PROVE  /\ Len(saved) >= 1 /\ Len(saved') = Len(saved)
           /\ \A i \in 1..Len(saved) : /\ saved'[i].matrix = saved[i].matrix
                                       /\ saved'[i].scope = saved[i].scope
                                       /\ i < Len(saved) => saved'[i] = saved[i]
           /\ saved'[Len(saved)].name = NameOf(tag.raw)
           /\ \A i \in 1..Len(changeStack) : changeStack'[i] = changeStack[i]
           /\ tag.empty => changeStack' = changeStack
           /\ ~tag.empty => /\ Len(changeStack') = Len(changeStack) + 1
                            /\ changeStack'[Len(changeStack')] = changes
  <1>1. saved \in Seq(Saved) /\ Len(saved) >= 1
    BY DEF Control, SafeTypes, TypeOK, StackTypes, DepthOK, Reports
  <1> DEFINE top == saved[Len(saved)]
             named == [top EXCEPT !.name = NameOf(tag.raw)]
  <1>2. top \in Saved
    BY <1>1
  <1>3. saved' = [saved EXCEPT ![Len(saved)] = named]
    BY DEF Reports
  <1>4. named.matrix = top.matrix /\ named.scope = top.scope /\ named.name = NameOf(tag.raw)
    BY <1>2 DEF Saved
  <1>5. Len(saved') = Len(saved) /\ \A i \in 1..Len(saved) : i < Len(saved) => saved'[i] = saved[i]
    BY <1>1, <1>3
  <1>6. saved'[Len(saved)] = named
    BY <1>1, <1>3
  <1>7. \A i \in 1..Len(saved) : /\ saved'[i].matrix = saved[i].matrix
                                 /\ saved'[i].scope = saved[i].scope
    <2> TAKE i \in 1..Len(saved)
    <2>1. CASE i = Len(saved)
      BY <1>4, <1>6, <2>1
    <2>2. CASE i < Len(saved)
      BY <1>5, <2>2
    <2> QED
      BY <1>1, <2>1, <2>2
  <1>8. changeStack \in Seq(Log) /\ changes \in Log
    BY DEF Control, SafeTypes, TypeOK, StackTypes, NamespaceTypes
  <1>9. /\ \A i \in 1..Len(changeStack) : changeStack'[i] = changeStack[i]
        /\ tag.empty => changeStack' = changeStack
        /\ ~tag.empty => /\ Len(changeStack') = Len(changeStack) + 1
                         /\ changeStack'[Len(changeStack')] = changes
    BY <1>8 DEF Reports, PushChanges
  <1> QED
    BY <1>1, <1>4, <1>5, <1>6, <1>7, <1>9

(* The stacks after a tag is closed.                                       *)
LEMMA ClosesStacks ==
    ASSUME Control, Depths, Healthy, ClosesEmpty \/ ClosesTop
    PROVE  /\ Len(saved) >= 1 /\ Len(saved') = Len(saved) - 1
           /\ \A i \in 1..(Len(saved) - 1) : saved'[i] = saved[i]
           /\ saved[Len(saved)] \in Saved
           /\ ClosesTop => /\ Len(nodeStack) >= 1 /\ Len(nodeStack') = Len(nodeStack) - 1
                           /\ \A i \in 1..(Len(nodeStack) - 1) : nodeStack'[i] = nodeStack[i]
                           /\ Len(changeStack) >= 1
                           /\ InnermostLog = changeStack[Len(changeStack)]
                           /\ Len(changeStack') = Len(changeStack) - 1
                           /\ \A i \in 1..(Len(changeStack) - 1) :
                                 changeStack'[i] = changeStack[i]
  <1>1. /\ saved \in Seq(Saved) /\ nodeStack \in Seq(DocPrefix) /\ changeStack \in Seq(Log)
        /\ DepthOK
    BY DEF Control, SafeTypes, TypeOK, StackTypes
  <1>2. Len(saved) >= 1
    BY <1>1 DEF DepthOK, Between, ClosesEmpty, ClosesTop
  <1>3. saved' = SubSeq(saved, 1, Len(saved) - 1)
    BY DEF ClosesEmpty, ClosesTop, Closes
  <1>4. ASSUME ClosesTop
        PROVE  /\ Len(nodeStack) >= 1 /\ Len(changeStack) >= 1
               /\ nodeStack' = SubSeq(nodeStack, 1, Len(nodeStack) - 1)
               /\ changeStack' = SubSeq(changeStack, 1, Len(changeStack) - 1)
    BY <1>1, <1>4 DEF Depths, Between, ClosesTop, Closes
  <1>5. /\ Len(saved') = Len(saved) - 1 /\ saved[Len(saved)] \in Saved
        /\ \A i \in 1..(Len(saved) - 1) : saved'[i] = saved[i]
    BY <1>1, <1>2, <1>3, PopType
  <1>6. ASSUME ClosesTop
        PROVE  /\ Len(nodeStack') = Len(nodeStack) - 1
               /\ \A i \in 1..(Len(nodeStack) - 1) : nodeStack'[i] = nodeStack[i]
    BY <1>1, <1>4, <1>6, PopType
  <1>7. ASSUME ClosesTop
        PROVE  /\ Len(changeStack') = Len(changeStack) - 1
               /\ \A i \in 1..(Len(changeStack) - 1) : changeStack'[i] = changeStack[i]
    BY <1>1, <1>4, <1>7, PopType
  <1>8. ASSUME ClosesTop
        PROVE  InnermostLog = changeStack[Len(changeStack)]
    BY <1>4, <1>8 DEF InnermostLog
  <1> QED
    BY <1>2, <1>4, <1>5, <1>6, <1>7, <1>8

LEMMA DepthsStep ==
    ASSUME Control, Depths, [Next]_vars
    PROVE  Depths'
  <1> SUFFICES ASSUME Healthy'
               PROVE  /\ Between' => /\ Len(changeStack') = Len(nodeStack')
                                     /\ Len(saved') = Len(nodeStack')
                      /\ pc' \in {"attrs", "empty"} => Len(saved') = Len(changeStack') + 1
                      /\ pc' \in {"attrs", "empty"} /\ tag'.empty =>
                            Len(changeStack') = Len(nodeStack')
                      /\ pc' = "attrs" /\ ~tag'.empty =>
                            Len(nodeStack') = Len(changeStack') + 1
    BY DEF Depths
  <1>1. CASE Restarts
    BY <1>1 DEF Restarts, ResetState
  <1>2. CASE Healthy /\ Rests
    BY <1>2 DEF Rests, scopeVars, Depths, Between
  <1>3. CASE Healthy /\ Stays
    BY <1>3 DEF Stays, Depths, Between
  <1>4. CASE Healthy /\ Opens
    BY <1>4, OpensStacks, Lengths DEF Opens, Depths, Between
  <1>5. CASE Healthy /\ Declare
    <2>1. tag'.empty = tag.empty
      BY <1>5 DEF Declare, Control, SafeTypes, TypeOK, StackTypes, Tag
    <2> QED
      BY <1>5, <2>1 DEF Declare, docVars, Depths, Between
  <1>6. CASE Healthy /\ Reports
    <2>1. CASE tag.empty
      BY <1>6, <2>1, ReportsStacks, Lengths DEF Reports, Depths, Between
    <2>2. CASE ~tag.empty
      BY <1>6, <2>2, ReportsStacks, Lengths DEF Reports, Depths, Between
    <2> QED
      BY <2>1, <2>2
  <1>7. CASE Healthy /\ ClosesEmpty
    <2>1. tag.empty
      BY <1>7 DEF ClosesEmpty, Control, SafeTypes, DepthOK
    <2> QED
      <3>1. /\ Len(saved) = Len(changeStack) + 1 /\ Len(changeStack) = Len(nodeStack)
            /\ nodeStack' = nodeStack /\ changeStack' = changeStack /\ pc' = "scan"
        BY <1>7, <2>1 DEF ClosesEmpty, Closes, Depths
      <3>2. Len(saved') = Len(saved) - 1
        BY <1>7, ClosesStacks
      <3> QED
        BY <3>1, <3>2, Lengths
  <1>8. CASE Healthy /\ ClosesTop
    BY <1>8, ClosesStacks, Lengths DEF ClosesTop, Closes, Depths, Between
  <1> QED
    BY <1>1, <1>2, <1>3, <1>4, <1>5, <1>6, <1>7, <1>8, Steps

LEMMA ScopesInvariant == Spec => []Scopes
  <1>1. Init => Depths
    BY DEF Init, Depths, Between
  <1>2. Control /\ Owners /\ Depths /\ [Next]_vars => Owners' /\ Depths'
    BY OwnersStep, DepthsStep DEF Control
  <1> QED
    BY <1>1, <1>2, InitOwners, ControlInvariant, NamesFresh, PTL DEF Spec, Scopes

(* Between two tags there is one log and one saved scope per open tag,     *)
(* wherever a stream was cut.                                              *)
THEOREM ScopesStayAligned == Spec => []ScopesAligned
  <1>1. Scopes => ScopesAligned
    BY DEF Scopes, Depths, ScopesAligned
  <1> QED
    BY <1>1, ScopesInvariant, PTL

-----------------------------------------------------------------------------
(* Undoing logs *)

(* A declaration changes nothing about the matrix a tag leaves behind.     *)
LEMMA DeclareRestores ==
    ASSUME Control, Declare
    PROVE  RestoreMatrix(matrix', changes') = RestoreMatrix(matrix, changes)
  <1> DEFINE d == Head(tag.decls)
  <1>1. matrix \in Matrix /\ changes \in Log /\ Unset \notin Entry
    BY NamesAssumption DEF Control, SafeTypes, TypeOK, NamespaceTypes, Entry
  <1>2. PICK alias \in Prefix :
          IF matrix[Alias(d.prefix)] = alias
          THEN UNCHANGED <<matrix, changes>>
          ELSE LET written == DeclaredKeys(d, alias) IN
               /\ matrix' = [k \in Key |-> IF k \in written
                                           THEN DeclaredEntry(d, alias, k) ELSE matrix[k]]
               /\ changes' = [k \in Key |-> IF k \in written
                                            THEN LogEntry(matrix, changes, k)[k] ELSE changes[k]]
    BY DEF Declare
  <1> HIDE DEF d
  <1>3. CASE UNCHANGED <<matrix, changes>>
    BY <1>3
  <1>4. CASE matrix[Alias(d.prefix)] # alias
    <2> DEFINE written == DeclaredKeys(d, alias)
    <2>1. /\ matrix' = [k \in Key |-> IF k \in written
                                      THEN DeclaredEntry(d, alias, k) ELSE matrix[k]]
          /\ changes' = [k \in Key |-> IF k \in written
                                       THEN LogEntry(matrix, changes, k)[k] ELSE changes[k]]
      BY <1>2, <1>4
    <2> HIDE DEF written
    <2>2. ASSUME NEW k \in Key
          PROVE  (IF changes'[k] = Unset THEN matrix'[k] ELSE changes'[k])
                    = IF changes[k] = Unset THEN matrix[k] ELSE changes[k]
      <3>1. CASE k \notin written
        BY <2>1, <2>2, <3>1
      <3>2. CASE k \in written
        <4>1. changes'[k] = LogEntry(matrix, changes, k)[k]
          BY <2>1, <2>2, <3>2
        <4>2. LogEntry(matrix, changes, k)[k]
                = IF changes[k] = Unset THEN matrix[k] ELSE changes[k]
          BY <1>1, <2>2 DEF LogEntry, Log
        <4>3. matrix[k] # Unset
          BY <1>1, <2>2 DEF Matrix
        <4> QED
          BY <4>1, <4>2, <4>3
      <3> QED
        BY <3>1, <3>2
    <2> QED
      BY <2>2 DEF RestoreMatrix
  <1> QED
    BY <1>2, <1>3, <1>4

(* What a step leaves as it is of a tag that was open and stays open.      *)
Framed(i) ==
    /\ MatrixWithin(i)' = MatrixWithin(i)
    /\ changeStack'[i] = changeStack[i]
    /\ nodeStack'[i] = nodeStack[i]
    /\ saved'[i] = saved[i]

(* Closing a tag brings back the matrix of before it.                      *)
LEMMA ClosesRestores ==
    ASSUME Scopes, UndoLog, Healthy, ClosesEmpty \/ ClosesTop
    PROVE  matrix' = saved[Len(saved)].matrix
  <1>1. CASE ClosesEmpty
    BY <1>1 DEF ClosesEmpty, Closes, UndoLog
  <1>2. CASE ClosesTop
    <2>1. /\ Len(changeStack) >= 1 /\ Len(changeStack) = Len(saved) /\ Len(saved) \in Nat
          /\ InnermostLog = changeStack[Len(changeStack)]
      BY <1>2, ClosesStacks, Lengths DEF ClosesTop, Scopes, Depths, Between
    <2>2. Len(saved) \in DOMAIN changeStack
      BY <2>1, Lengths DEF Scopes
    <2>3. RestoreMatrix(matrix, changeStack[Len(saved)]) = saved[Len(saved)].matrix
      BY <2>2 DEF UndoLog, MatrixWithin
    <2> QED
      BY <1>2, <2>1, <2>3 DEF ClosesTop, Closes
  <1> QED
    BY <1>1, <1>2

LEMMA Frame ==
    ASSUME Scopes, UndoLog, Healthy,
           Rests \/ Stays \/ Opens \/ Declare \/ Reports \/ ClosesEmpty \/ ClosesTop,
           NEW i \in DOMAIN changeStack, i \in DOMAIN changeStack'
    PROVE  Framed(i)
  <1> USE DEF Framed, MatrixWithin
  <1>1. /\ i \in 1..Len(changeStack) /\ DOMAIN changeStack = 1..Len(changeStack)
        /\ Len(changeStack) \in Nat /\ Len(saved) \in Nat /\ Len(nodeStack) \in Nat
        /\ tag.empty \in BOOLEAN
    BY Lengths DEF Scopes
  <1>2. CASE Rests
    BY <1>2 DEF Rests, scopeVars, nsVars
  <1>3. CASE Stays
    BY <1>3 DEF Stays
  <1>4. CASE Opens
    <2>1. /\ UNCHANGED changeStack /\ Len(saved') = Len(saved) + 1
          /\ \A j \in 1..Len(saved) : saved'[j] = saved[j]
          /\ saved'[Len(saved) + 1].matrix = matrix
          /\ \A j \in 1..Len(nodeStack) : nodeStack'[j] = nodeStack[j]
          /\ pc \in {"scan", "resume"}
      BY <1>4, OpensStacks DEF Opens, Scopes
    <2>2. Len(saved) = Len(changeStack) /\ Len(nodeStack) = Len(changeStack)
      BY <2>1 DEF Scopes, Depths, Between
    <2> QED
      BY <1>1, <2>1, <2>2
  <1>5. CASE Declare
    <2>1. UNCHANGED <<changeStack, nodeStack, saved>> /\ Len(saved) = Len(changeStack) + 1
      BY <1>5 DEF Declare, docVars, Scopes, Depths
    <2> QED
      BY <1>1, <2>1
  <1>6. CASE Reports
    <2>1. Len(saved) = Len(changeStack) + 1 /\ UNCHANGED nodeStack
      BY <1>6 DEF Reports, Scopes, Depths
    <2>2. /\ Len(saved') = Len(saved)
          /\ \A j \in 1..Len(saved) : /\ saved'[j].matrix = saved[j].matrix
                                      /\ j < Len(saved) => saved'[j] = saved[j]
          /\ changeStack'[i] = changeStack[i]
      BY <1>1, <1>6, ReportsStacks DEF Scopes
    <2> QED
      BY <1>1, <2>1, <2>2
  <1>7. CASE ClosesEmpty
    <2>1. /\ Len(saved) = Len(changeStack) + 1
          /\ nodeStack' = nodeStack /\ changeStack' = changeStack
      BY <1>7 DEF ClosesEmpty, Closes, Scopes, Depths
    <2>2. /\ Len(saved') = Len(saved) - 1
          /\ \A j \in 1..(Len(saved) - 1) : saved'[j] = saved[j]
          /\ matrix' = saved[Len(saved)].matrix
      BY <1>7, ClosesStacks, ClosesRestores DEF Scopes
    <2> QED
      BY <1>1, <2>1, <2>2
  <1>8. CASE ClosesTop
    <2>1. Len(saved) = Len(changeStack) /\ Len(nodeStack) = Len(changeStack)
      BY <1>8 DEF ClosesTop, Scopes, Depths, Between
    <2>2. /\ Len(saved') = Len(saved) - 1
          /\ \A j \in 1..(Len(saved) - 1) : saved'[j] = saved[j]
          /\ \A j \in 1..(Len(nodeStack) - 1) : nodeStack'[j] = nodeStack[j]
          /\ \A j \in 1..(Len(changeStack) - 1) : changeStack'[j] = changeStack[j]
          /\ Len(changeStack') = Len(changeStack) - 1
      BY <1>8, ClosesStacks DEF Scopes
    <2>3. i \in 1..(Len(changeStack) - 1)
      <3>1. changeStack' \in Seq(Log)
        <4>1. changeStack' = SubSeq(changeStack, 1, Len(changeStack) - 1)
              /\ Len(changeStack) >= 1 /\ changeStack \in Seq(Log)
          BY <1>8, ClosesStacks
          DEF ClosesTop, Closes, Scopes, Control, SafeTypes, TypeOK, StackTypes
        <4> QED
          BY <4>1, PopType
      <3> QED
        BY <1>1, <2>2, <3>1
    <2>4. matrix' = saved[Len(saved)].matrix
      BY <1>8, ClosesRestores
    <2>5. PICK n \in Nat : n = Len(saved) /\ n = Len(changeStack) /\ n = Len(nodeStack)
      BY <1>1, <2>1
    <2>6. saved'[i] = saved[i] /\ nodeStack'[i] = nodeStack[i] /\ changeStack'[i] = changeStack[i]
      BY <2>2, <2>3, <2>5
    <2>7. CASE i = n - 1
      BY <2>2, <2>4, <2>5, <2>6, <2>7
    <2>8. CASE i # n - 1
      BY <1>1, <2>2, <2>3, <2>4, <2>5, <2>6, <2>8
    <2> QED
      BY <2>7, <2>8
  <1> QED
    BY <1>2, <1>3, <1>4, <1>5, <1>6, <1>7, <1>8

(* The log of a tag that stays open is pushed when the tag is reported.    *)
LEMMA Pushed ==
    ASSUME Scopes, Healthy, [Next]_vars, Healthy',
           NEW i \in DOMAIN changeStack', i \notin DOMAIN changeStack
    PROVE  /\ Reports /\ ~tag.empty /\ pc' = "scan"
           /\ i = Len(saved) /\ Len(saved') = Len(saved)
           /\ changeStack'[i] = changes /\ matrix' = matrix
           /\ saved'[i].matrix = saved[i].matrix
           /\ saved'[i].name = NameOf(tag.raw)
           /\ i = Len(nodeStack) /\ nodeStack' = nodeStack
  <1>1. DOMAIN changeStack = 1..Len(changeStack) /\ tag.empty \in BOOLEAN
        /\ Len(changeStack) \in Nat /\ Len(nodeStack) \in Nat /\ Len(saved) \in Nat
    BY Lengths DEF Scopes
  <1>2. ~Restarts
    BY DEF Restarts, ResetState
  <1>3. ~Rests /\ ~Stays /\ ~Declare /\ ~ClosesEmpty
    BY DEF Rests, scopeVars, Stays, Declare, docVars, ClosesEmpty, Closes
  <1>4. ~Opens
    BY DEF Opens, OpenTag
  <1>5. ~ClosesTop
    <2> SUFFICES ASSUME ClosesTop PROVE FALSE
      OBVIOUS
    <2>1. Len(changeStack) >= 1 /\ changeStack \in Seq(Log)
          /\ changeStack' = SubSeq(changeStack, 1, Len(changeStack) - 1)
      BY ClosesStacks DEF ClosesTop, Closes, Scopes, Control, SafeTypes, TypeOK, StackTypes
    <2>2. DOMAIN changeStack' = 1..(Len(changeStack) - 1)
      BY <2>1, PopType
    <2> QED
      BY <1>1, <2>2
  <1>6. Reports
    BY <1>2, <1>3, <1>4, <1>5, Steps DEF Scopes
  <1>7. ~tag.empty
    BY <1>6, ReportsStacks DEF Scopes
  <1>8. /\ changeStack' \in Seq(Log) /\ Len(changeStack') = Len(changeStack) + 1
        /\ changeStack'[Len(changeStack')] = changes
    BY <1>6, <1>7, ReportsStacks
    DEF Scopes, Reports, PushChanges, Control, SafeTypes, TypeOK, StackTypes, NamespaceTypes
  <1>9. i = Len(changeStack) + 1
    BY <1>1, <1>8
  <1>10. /\ Len(saved) = Len(changeStack) + 1 /\ Len(nodeStack) = Len(changeStack) + 1
         /\ pc' = "scan" /\ UNCHANGED <<matrix, nodeStack>>
    BY <1>6, <1>7 DEF Reports, nsVars, Scopes, Depths
  <1>11. /\ Len(saved') = Len(saved) /\ saved'[Len(saved)].name = NameOf(tag.raw)
         /\ saved'[Len(saved)].matrix = saved[Len(saved)].matrix
    BY <1>1, <1>6, ReportsStacks DEF Scopes
  <1> QED
    BY <1>6, <1>7, <1>8, <1>9, <1>10, <1>11

LEMMA UndoStep ==
    ASSUME Scopes, UndoLog, [Next]_vars
    PROVE  UndoLog'
  <1> SUFFICES ASSUME Healthy'
               PROVE  /\ \A i \in DOMAIN changeStack' :
                            RestoreMatrix(MatrixWithin(i)', changeStack'[i]) = saved'[i].matrix
                      /\ pc' \in {"attrs", "empty"} =>
                            RestoreMatrix(matrix', changes') = saved'[Len(saved')].matrix
    BY DEF UndoLog
  <1>1. CASE Restarts
    BY <1>1 DEF Restarts, ResetState
  <1>2. CASE /\ Healthy
             /\ Rests \/ Stays \/ Opens \/ Declare \/ Reports \/ ClosesEmpty \/ ClosesTop
    <2>1. ASSUME NEW i \in DOMAIN changeStack'
          PROVE  RestoreMatrix(MatrixWithin(i)', changeStack'[i]) = saved'[i].matrix
      <3>1. CASE i \in DOMAIN changeStack
        <4>1. Framed(i)
          BY <1>2, <2>1, <3>1, Frame
        <4>2. RestoreMatrix(MatrixWithin(i), changeStack[i]) = saved[i].matrix
          BY <1>2, <3>1 DEF UndoLog
        <4> QED
          BY <4>1, <4>2 DEF Framed
      <3>2. CASE i \notin DOMAIN changeStack
        <4>1. /\ Reports /\ i = Len(saved) /\ Len(saved') = Len(saved)
              /\ changeStack'[i] = changes /\ matrix' = matrix
              /\ saved'[i].matrix = saved[i].matrix
          BY <1>2, <2>1, <3>2, Pushed
        <4>2. MatrixWithin(i)' = matrix
          BY <4>1 DEF MatrixWithin
        <4>3. RestoreMatrix(matrix, changes) = saved[Len(saved)].matrix
          BY <1>2, <4>1 DEF UndoLog, Reports
        <4> QED
          BY <4>1, <4>2, <4>3
      <3> QED
        BY <3>1, <3>2
    <2>2. ASSUME pc' \in {"attrs", "empty"}
          PROVE  RestoreMatrix(matrix', changes') = saved'[Len(saved')].matrix
      <3>1. CASE Rests \/ ClosesEmpty \/ ClosesTop
        BY <2>2, <3>1 DEF Rests, Between, ClosesEmpty, ClosesTop, Closes
      <3>2. CASE Stays
        BY <1>2, <2>2, <3>2 DEF Stays, UndoLog
      <3>3. CASE Opens
        <4>1. /\ UNCHANGED matrix /\ changes' = NoChanges
              /\ Len(saved') = Len(saved) + 1 /\ saved'[Len(saved) + 1].matrix = matrix
          BY <3>3, OpensStacks DEF Opens, nsVars, Scopes
        <4>2. matrix \in Matrix
          BY DEF Scopes, Control, SafeTypes, TypeOK, NamespaceTypes
        <4> QED
          BY <4>1, <4>2, RestoreNothing
      <3>4. CASE Declare
        BY <1>2, <3>4, DeclareRestores DEF Declare, UndoLog, Scopes
      <3>5. CASE Reports
        <4>1. Len(saved') = Len(saved) /\ Len(saved) >= 1 /\ Len(saved) \in Nat
              /\ \A i \in 1..Len(saved) : saved'[i].matrix = saved[i].matrix
          BY <3>5, ReportsStacks, Lengths DEF Scopes
        <4>2. saved'[Len(saved')].matrix = saved[Len(saved)].matrix
          BY <4>1
        <4> QED
          BY <1>2, <3>5, <4>2 DEF Reports, nsVars, UndoLog
      <3> QED
        BY <1>2, <3>1, <3>2, <3>3, <3>4, <3>5
    <2> QED
      BY <2>1, <2>2
  <1> QED
    BY <1>1, <1>2, Steps DEF Scopes

LEMMA NamesStep ==
    ASSUME Scopes, UndoLog, Names, [Next]_vars
    PROVE  Names'
  <1> SUFFICES ASSUME Healthy'
               PROVE  /\ \A i \in DOMAIN changeStack' :
                            saved'[i].name = Normalize(MatrixWithin(i)', nodeStack'[i])
                      /\ pc' = "empty" =>
                            saved'[Len(saved')].name = Normalize(matrix', tag'.raw)
                      /\ pc' = "attrs" /\ ~tag'.empty =>
                            nodeStack'[Len(nodeStack')] = tag'.raw
    BY DEF Names, Normalize
  <1>1. CASE Restarts
    BY <1>1 DEF Restarts, ResetState
  <1>2. CASE /\ Healthy
             /\ Rests \/ Stays \/ Opens \/ Declare \/ Reports \/ ClosesEmpty \/ ClosesTop
    <2>1. ASSUME NEW i \in DOMAIN changeStack'
          PROVE  saved'[i].name = Normalize(MatrixWithin(i)', nodeStack'[i])
      <3>1. CASE i \in DOMAIN changeStack
        <4>1. Framed(i)
          BY <1>2, <2>1, <3>1, Frame
        <4>2. saved[i].name = Normalize(MatrixWithin(i), nodeStack[i])
          BY <1>2, <3>1 DEF Names
        <4> QED
          BY <4>1, <4>2 DEF Framed
      <3>2. CASE i \notin DOMAIN changeStack
        <4>1. /\ Reports /\ ~tag.empty /\ i = Len(saved) /\ Len(saved') = Len(saved)
              /\ matrix' = matrix /\ saved'[i].name = NameOf(tag.raw)
              /\ i = Len(nodeStack) /\ nodeStack' = nodeStack
          BY <1>2, <2>1, <3>2, Pushed
        <4>2. MatrixWithin(i)' = matrix
          BY <4>1 DEF MatrixWithin
        <4>3. nodeStack[Len(nodeStack)] = tag.raw
          BY <1>2, <4>1 DEF Names, Reports
        <4>4. NameOf(tag.raw) = Normalize(matrix, tag.raw)
          BY <4>1, NameFresh, NamesAssumption DEF Reports, Scopes
        <4> QED
          BY <4>1, <4>2, <4>3, <4>4
      <3> QED
        BY <3>1, <3>2
    <2>2. ASSUME pc' = "empty"
          PROVE  saved'[Len(saved')].name = Normalize(matrix', tag'.raw)
      <3>1. CASE Rests \/ Opens \/ Declare \/ ClosesEmpty \/ ClosesTop
        BY <2>2, <3>1 DEF Rests, Between, Opens, OpenTag, Declare, ClosesEmpty, ClosesTop, Closes
      <3>2. CASE Stays
        BY <1>2, <2>2, <3>2 DEF Stays, Names, Normalize
      <3>3. CASE Reports
        <4>1. /\ Len(saved') = Len(saved) /\ saved'[Len(saved)].name = NameOf(tag.raw)
              /\ UNCHANGED matrix /\ tag' = tag /\ tag.raw \in DocPrefix
          BY <2>2, <3>3, ReportsStacks DEF Reports, nsVars, Scopes
        <4>2. NameOf(tag.raw) = Normalize(matrix, tag.raw)
          BY <4>1, NameFresh, NamesAssumption DEF Scopes
        <4> QED
          BY <4>1, <4>2
      <3> QED
        BY <1>2, <3>1, <3>2, <3>3
    <2>3. ASSUME pc' = "attrs", ~tag'.empty
          PROVE  nodeStack'[Len(nodeStack')] = tag'.raw
      <3>1. CASE Rests \/ Reports \/ ClosesEmpty \/ ClosesTop
        BY <2>3, <3>1 DEF Rests, Between, Reports, ClosesEmpty, ClosesTop, Closes
      <3>2. CASE Stays
        BY <1>2, <2>3, <3>2 DEF Stays, Names
      <3>3. CASE Opens
        BY <2>3, <3>3, OpensStacks DEF Opens, Scopes
      <3>4. CASE Declare
        <4>1. tag'.raw = tag.raw /\ tag'.empty = tag.empty
          BY <3>4 DEF Declare, Scopes, Control, SafeTypes, TypeOK, StackTypes, Tag
        <4> QED
          BY <1>2, <2>3, <3>4, <4>1 DEF Declare, docVars, Names
      <3> QED
        BY <1>2, <3>1, <3>2, <3>3, <3>4
    <2> QED
      BY <2>1, <2>2, <2>3
  <1> QED
    BY <1>1, <1>2, Steps DEF Scopes

LEMMA LogsInvariant == Spec => []Logs
  <1>1. Init => UndoLog /\ Names
    BY DEF Init, UndoLog, Names
  <1>2. Scopes /\ UndoLog /\ Names /\ [Next]_vars => UndoLog' /\ Names'
    BY UndoStep, NamesStep
  <1> QED
    BY <1>1, <1>2, ScopesInvariant, PTL DEF Spec, Logs

(* Undoing the log of an open tag gives the matrix of before it, however   *)
(* deep the tags within it and whatever they declare.                      *)
THEOREM LogsUndo == Spec => []UndoLog
  <1>1. Logs => UndoLog
    BY DEF Logs
  <1> QED
    BY <1>1, LogsInvariant, PTL

-----------------------------------------------------------------------------
(* Names of closing tags *)

LEMMA ClosingStep ==
    ASSUME Logs, [Next]_vars, Healthy, Len(saved') < Len(saved), runs' = runs
    PROVE  event'.kind = "close" /\ event'.name = saved[Len(saved)].name
  <1> USE DEF Logs
  <1>1. runs \in Nat /\ Len(saved) \in Nat /\ DocPrefix \subseteq Prefix
    BY Lengths, NamesAssumption DEF Scopes, Control, SafeTypes, TypeOK, ControlTypes
  <1>2. ~ResetState
    BY <1>1 DEF ResetState
  <1>3. ASSUME NEW raw \in DocPrefix
        PROVE  NameOf(raw) = Normalize(matrix, raw)
    BY <1>1, <1>3, NameFresh DEF Scopes
  <1>4. ASSUME NEW outcome \in Outcome, NEW raw, NEW log, NEW rest,
               EmitClose(outcome, raw, log, rest)
        PROVE  event'.kind = "close" /\ event'.name = NameOf(raw)
    BY <1>4 DEF EmitClose
  <1>5. ASSUME NEW outcome \in Outcome, CloseEmpty(outcome)
        PROVE  event'.kind = "close" /\ event'.name = saved[Len(saved)].name
    <2>1. tag.raw \in DocPrefix
      BY DEF Scopes, Control, SafeTypes, TypeOK, StackTypes, Tag
    <2>2. event'.kind = "close" /\ event'.name = NameOf(tag.raw)
      BY <1>4, <1>5 DEF CloseEmpty
    <2>3. saved[Len(saved)].name = Normalize(matrix, tag.raw)
      BY <1>5 DEF CloseEmpty, Names
    <2> QED
      BY <1>3, <2>1, <2>2, <2>3
  <1>6. ASSUME NEW raw \in DocPrefix, NEW outcome \in Outcome, CloseTag(raw, outcome)
        PROVE  event'.kind = "close" /\ event'.name = saved[Len(saved)].name
    <2>1. saved' # saved
      BY <1>1
    <2>2. /\ pc \in {"scan", "resume"} /\ nodeStack # <<>> /\ raw = nodeStack[Len(nodeStack)]
          /\ EmitClose(outcome, raw, InnermostLog,
                       SubSeq(changeStack, 1, Len(changeStack) - 1))
      BY <1>6, <2>1 DEF CloseTag, Section
    <2>3. event'.kind = "close" /\ event'.name = NameOf(raw)
      BY <1>4, <2>2
    <2>4. Len(saved) = Len(changeStack) /\ Len(nodeStack) = Len(changeStack)
      BY <2>2 DEF Scopes, Depths, Between
    <2>5. Len(changeStack) \in DOMAIN changeStack
      <3>1. Len(nodeStack) >= 1
        BY <2>2 DEF Scopes, Control, SafeTypes, TypeOK, StackTypes
      <3> QED
        BY <2>4, <3>1, Lengths DEF Scopes, Control
    <2>6. saved[Len(saved)].name = Normalize(matrix, raw)
      BY <2>2, <2>4, <2>5 DEF Names, MatrixWithin
    <2> QED
      BY <1>3, <2>3, <2>6
  <1>7. ASSUME NEW raw \in DocPrefix, NEW empty \in BOOLEAN, NEW decls \in Declarations,
               OpenTag(raw, empty, decls)
        PROVE  FALSE
    BY <1>1, <1>7, OpensStacks DEF Scopes
  <1>8. ASSUME NEW outcome \in Outcome, OpenEvent(outcome)
        PROVE  FALSE
    <2>1. saved \in Seq(Saved)
      BY DEF Scopes, Control, SafeTypes, TypeOK, StackTypes
    <2>2. saved' = saved \/ \E s : saved' = [saved EXCEPT ![Len(saved)] = s]
      BY <1>8 DEF OpenEvent
    <2>3. Len(saved') = Len(saved)
      BY <2>1, <2>2
    <2> QED
      BY <1>1, <2>3
  <1>9. saved' # saved
    BY <1>1
  <1> QED
    BY <1>2, <1>5, <1>6, <1>7, <1>8, <1>9
    DEF Next, vars, refVars, Parse, EndNothing, Begin, Write, KeepState, End, Declare, BadTag,
        Misc, ChunkEnd, Eof, AttributeWarning, AttributeError

(* A closing tag is reported under the name of its opening tag.            *)
THEOREM ClosedAsOpened == Spec => ClosingName
  <1>1. Logs /\ [Next]_vars =>
          [Healthy /\ Len(saved') < Len(saved) /\ runs' = runs =>
              event'.kind = "close" /\ event'.name = saved[Len(saved)].name]_vars
    BY ClosingStep
  <1> QED
    BY <1>1, LogsInvariant, PTL DEF Spec, ClosingName

-----------------------------------------------------------------------------
(* Aliases *)

(* Bindings stay faithful while uris keep the prefixes they have.          *)
LEMMA FaithfulKept ==
    ASSUME SafeTypes, NEW m, NEW s \in Scope, Faithful(m, s),
           \A u \in Uri : uriPrefix[u] # None => uriPrefix'[u] = uriPrefix[u]
    PROVE  \A p \in Prefix : s[p] # None => /\ uriPrefix'[s[p]] # None
                                            /\ m[Alias(p)] = uriPrefix'[s[p]]
  BY DEF Faithful, Scope

(* A document starts with faithful bindings.                               *)
LEMMA BuiltFaithful ==
    ASSUME Owners
    PROVE  Faithful(BuildMatrix(owner), owner)
  <1> SUFFICES ASSUME NEW p \in Prefix, owner[p] # None
               PROVE  /\ uriPrefix[owner[p]] # None
                      /\ BuildMatrix(owner)[Alias(p)] = uriPrefix[owner[p]]
    BY DEF Faithful
  <1>1. uriPrefix[owner[p]] = p /\ p # None
    BY NamesAssumption DEF Owners
  <1>2. BuildMatrix(owner)[Alias(p)] = p
    BY DEF BuildMatrix, Alias, Key
  <1> QED
    BY <1>1, <1>2

(* A declaration binds its prefix, and keeps the others.                   *)
LEMMA DeclareFaithful ==
    ASSUME Scopes, Declare, Faithful(matrix, scope)
    PROVE  /\ \A u \in Uri : uriPrefix[u] # None => uriPrefix'[u] = uriPrefix[u]
           /\ \A p \in Prefix : scope'[p] # None =>
                 /\ uriPrefix'[scope'[p]] # None
                 /\ matrix'[Alias(p)] = uriPrefix'[scope'[p]]
  <1> DEFINE d == Head(tag.decls)
  <1>1. SafeTypes /\ Owners
    BY DEF Scopes, Control
  <1>2. d \in Declaration /\ d.prefix \in Prefix /\ d.uri \in Uri
    BY <1>1, DeclaredTyped, NamesAssumption DEF Declare, Declaration
  <1>3. PICK alias \in Prefix :
          /\ ChoosePrefix(d, alias)
          /\ IF matrix[Alias(d.prefix)] = alias
             THEN UNCHANGED matrix
             ELSE matrix' = [k \in Key |-> IF k \in DeclaredKeys(d, alias)
                                           THEN DeclaredEntry(d, alias, k) ELSE matrix[k]]
          /\ scope' = [scope EXCEPT ![d.prefix] = d.uri]
    BY DEF Declare
  <1> HIDE DEF d
  <1>4. /\ uriPrefix'[d.uri] = alias /\ alias # None
        /\ \A u \in Uri : uriPrefix[u] # None => uriPrefix'[u] = uriPrefix[u]
    BY <1>1, <1>2, <1>3, ChoosePrefixOwners, NamesAssumption
  <1>5. scope \in Scope
    BY <1>1 DEF SafeTypes, TypeOK, NamespaceTypes
  <1>6. matrix'[Alias(d.prefix)] = alias
    BY <1>2, <1>3 DEF Alias, Key, DeclaredKeys, DeclaredEntry
  <1>7. ASSUME NEW p \in Prefix, p # d.prefix
        PROVE  matrix'[Alias(p)] = matrix[Alias(p)]
    <2>1. Alias(p) \in Key /\ Alias(p) \notin DeclaredKeys(d, alias)
      BY <1>7 DEF Alias, UriOf, Key, DeclaredKeys
    <2> QED
      BY <1>3, <2>1
  <1>8. ASSUME NEW p \in Prefix, scope'[p] # None
        PROVE  uriPrefix'[scope'[p]] # None /\ matrix'[Alias(p)] = uriPrefix'[scope'[p]]
    <2>1. CASE p = d.prefix
      <3>1. scope'[p] = d.uri
        BY <1>2, <1>3, <1>5, <2>1 DEF Scope
      <3> QED
        BY <1>4, <1>6, <2>1, <3>1
    <2>2. CASE p # d.prefix
      <3>1. scope'[p] = scope[p] /\ scope[p] \in Uri
        BY <1>3, <1>5, <1>8, <2>2 DEF Scope
      <3>2. uriPrefix[scope[p]] # None /\ matrix[Alias(p)] = uriPrefix[scope[p]]
        BY <1>8, <3>1 DEF Faithful
      <3> QED
        BY <1>4, <1>7, <2>2, <3>1, <3>2
    <2> QED
      BY <2>1, <2>2
  <1> QED
    BY <1>4, <1>8

LEMMA AliasesStep ==
    ASSUME Logs, Aliases, [Next]_vars
    PROVE  Aliases'
  <1> DEFINE FaithfulNext(m, s) ==
               \A p \in Prefix : s[p] # None => /\ uriPrefix'[s[p]] # None
                                                /\ m[Alias(p)] = uriPrefix'[s[p]]
  <1> SUFFICES ASSUME Healthy'
               PROVE  /\ FaithfulNext(matrix', scope')
                      /\ \A i \in DOMAIN saved' :
                            FaithfulNext(saved'[i].matrix, saved'[i].scope)
    BY DEF Aliases, Faithful
  <1>1. Control /\ SafeTypes /\ Owners /\ Scopes /\ UndoLog
    BY DEF Logs, Scopes, Control
  <1>2. CASE Restarts
    <2>1. Faithful(BuildMatrix(owner), owner)
      BY <1>1, BuiltFaithful
    <2> QED
      BY <1>2, <2>1 DEF Restarts, ResetState, Faithful
  <1>3. ASSUME Healthy, UNCHANGED uriPrefix
        PROVE  /\ FaithfulNext(matrix, scope)
               /\ \A i \in DOMAIN saved : FaithfulNext(saved[i].matrix, saved[i].scope)
    BY <1>3 DEF Aliases, Faithful
  <1>4. CASE Healthy /\ Rests
    BY <1>3, <1>4 DEF Rests, scopeVars, nsVars
  <1>5. CASE Healthy /\ Stays
    BY <1>3, <1>5 DEF Stays
  <1>6. CASE Healthy /\ Opens
    <2>1. /\ UNCHANGED <<uriPrefix, matrix, scope>> /\ Len(saved') = Len(saved) + 1
          /\ \A i \in 1..Len(saved) : saved'[i] = saved[i]
          /\ saved'[Len(saved) + 1].matrix = matrix
          /\ saved'[Len(saved) + 1].scope = scope
      BY <1>1, <1>6, OpensStacks DEF Opens, nsVars
    <2>2. DOMAIN saved' = 1..(Len(saved) + 1) /\ Len(saved) \in Nat
          /\ DOMAIN saved = 1..Len(saved)
      <3>1. saved' \in Seq(Saved)
        BY <1>1, StackInductive DEF StackTypes
      <3> QED
        BY <1>1, <2>1, <3>1, Lengths
    <2>3. ASSUME NEW i \in DOMAIN saved'
          PROVE  FaithfulNext(saved'[i].matrix, saved'[i].scope)
      <3>1. CASE i = Len(saved) + 1
        BY <1>3, <1>6, <2>1, <3>1
      <3>2. CASE i \in DOMAIN saved
        BY <1>3, <1>6, <2>1, <2>2, <3>2
      <3> QED
        BY <2>2, <2>3, <3>1, <3>2
    <2> QED
      BY <1>3, <1>6, <2>1, <2>3
  <1>7. CASE Healthy /\ Declare
    <2>1. /\ FaithfulNext(matrix', scope')
          /\ \A u \in Uri : uriPrefix[u] # None => uriPrefix'[u] = uriPrefix[u]
      BY <1>1, <1>7, DeclareFaithful DEF Aliases
    <2>2. UNCHANGED saved /\ saved \in Seq(Saved)
      BY <1>1, <1>7 DEF Declare, SafeTypes, TypeOK, StackTypes
    <2>3. ASSUME NEW i \in DOMAIN saved
          PROVE  FaithfulNext(saved[i].matrix, saved[i].scope)
      <3>1. saved[i].scope \in Scope
        <4>1. saved[i] \in Saved
          BY <2>2, <2>3
        <4> QED
          BY <4>1 DEF Saved
      <3>2. Faithful(saved[i].matrix, saved[i].scope)
        BY <1>7 DEF Aliases
      <3> QED
        BY <1>1, <2>1, <3>1, <3>2, FaithfulKept
    <2> QED
      BY <2>1, <2>2, <2>3
  <1>8. CASE Healthy /\ Reports
    <2>1. /\ UNCHANGED <<uriPrefix, matrix, scope>> /\ Len(saved') = Len(saved)
          /\ \A i \in 1..Len(saved) : /\ saved'[i].matrix = saved[i].matrix
                                      /\ saved'[i].scope = saved[i].scope
      BY <1>1, <1>8, ReportsStacks DEF Reports, nsVars
    <2>2. DOMAIN saved' = DOMAIN saved /\ DOMAIN saved = 1..Len(saved)
      <3>1. saved' \in Seq(Saved)
        BY <1>1, StackInductive DEF StackTypes
      <3> QED
        BY <1>1, <2>1, <3>1, Lengths
    <2> QED
      BY <1>3, <1>8, <2>1, <2>2
  <1>9. CASE Healthy /\ (ClosesEmpty \/ ClosesTop)
    <2>1. /\ UNCHANGED uriPrefix /\ matrix' = saved[Len(saved)].matrix
          /\ scope' = saved[Len(saved)].scope
      BY <1>1, <1>9, ClosesRestores DEF ClosesEmpty, ClosesTop, Closes
    <2>2. /\ Len(saved) >= 1 /\ Len(saved') = Len(saved) - 1
          /\ \A i \in 1..(Len(saved) - 1) : saved'[i] = saved[i]
      BY <1>1, <1>9, ClosesStacks DEF Scopes
    <2>3. /\ DOMAIN saved' = 1..(Len(saved) - 1) /\ DOMAIN saved = 1..Len(saved)
          /\ Len(saved) \in Nat
      <3>1. saved' \in Seq(Saved)
        BY <1>1, StackInductive DEF StackTypes
      <3> QED
        BY <1>1, <2>2, <3>1, Lengths
    <2>4. Len(saved) \in DOMAIN saved
      BY <2>2, <2>3
    <2> QED
      BY <1>3, <1>9, <2>1, <2>2, <2>3, <2>4
  <1> QED
    BY <1>1, <1>2, <1>4, <1>5, <1>6, <1>7, <1>8, <1>9, Steps

THEOREM Invariance == Spec => []IInv
  <1>1. Init /\ Owners => Aliases
    <2>1. Init /\ Owners => Faithful(matrix, scope)
      BY BuiltFaithful DEF Init
    <2>2. Init => saved = <<>>
      BY DEF Init
    <2> QED
      BY <2>1, <2>2 DEF Aliases
  <1>2. Logs /\ Aliases /\ [Next]_vars => Aliases'
    BY AliasesStep
  <1> QED
    BY <1>1, <1>2, InitOwners, LogsInvariant, PTL DEF Spec, IInv

(* All the names of one namespace in scope share one normalised prefix,    *)
(* whatever prefixes documents give it or take from it.                    *)
THEOREM AliasesFaithful == Spec => []AliasFaithful
  <1>1. IInv => AliasFaithful
    BY DEF IInv, Aliases, Faithful, AliasFaithful
  <1> QED
    BY <1>1, Invariance, PTL
=============================================================================
