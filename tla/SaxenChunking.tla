--------------------------- MODULE SaxenChunking ---------------------------
(***************************************************************************)
(* One document read twice by bpmn_io/saxen/parser.py: by parse(), whole,  *)
(* and by write() and end(), in chunks.  The two parsers read the same     *)
(* sections; the second one also meets the ends of its chunks, between two *)
(* sections or within one, which it then leaves over and scans again.      *)
(*                                                                         *)
(* One cut is not made here: after a > within a quoted attribute value.    *)
(* The scan for the end of a tag ignores a quote that is not closed in the *)
(* text at hand, so the tag would end at that > (see README.md).           *)
(***************************************************************************)
EXTENDS Naturals, Sequences

CONSTANTS Prefix, DocPrefix, Default, Anon, Uri, None, Unset, Outcome, Config,
          MaxDecls, MaxTags, MaxDepth, MaxRuns

VARIABLES pc, streaming, uriPrefix, owner, matrix, changes, changeStack, nodeStack,
          cache, anonCount, stopped, error, rootFound, leftover, tag, tags, runs,
          event, scope, saved, torn

VARIABLES c_pc, c_streaming, c_uriPrefix, c_owner, c_matrix, c_changes, c_changeStack,
          c_nodeStack, c_cache, c_anonCount, c_stopped, c_error, c_rootFound, c_leftover,
          c_tag, c_tags, c_runs, c_event, c_scope, c_saved, c_torn

Whole == INSTANCE Saxen
Chunked == INSTANCE Saxen WITH
    pc <- c_pc, streaming <- c_streaming, uriPrefix <- c_uriPrefix,
    owner <- c_owner, matrix <- c_matrix, changes <- c_changes,
    changeStack <- c_changeStack, nodeStack <- c_nodeStack, cache <- c_cache,
    anonCount <- c_anonCount, stopped <- c_stopped, error <- c_error,
    rootFound <- c_rootFound, leftover <- c_leftover, tag <- c_tag,
    tags <- c_tags, runs <- c_runs, event <- c_event, scope <- c_scope,
    saved <- c_saved, torn <- c_torn

wholeVars ==
    <<pc, streaming, uriPrefix, owner, matrix, changes, changeStack,
      nodeStack, cache, anonCount, stopped, error, rootFound, leftover,
      tag, tags, runs, event, scope, saved, torn>>
chunkedVars ==
    <<c_pc, c_streaming, c_uriPrefix, c_owner, c_matrix, c_changes, c_changeStack,
      c_nodeStack, c_cache, c_anonCount, c_stopped, c_error, c_rootFound, c_leftover,
      c_tag, c_tags, c_runs, c_event, c_scope, c_saved, c_torn>>

Init == Whole!Init /\ Chunked!Init

(* The next section of the document, read by both.                         *)
ReadSection ==
    \/ Whole!BadTag /\ Chunked!BadTag
    \/ Whole!Misc("return") /\ Chunked!Misc("return")
    \/ \E raw \in DocPrefix, empty \in BOOLEAN, decls \in Whole!Declarations :
          Whole!OpenTag(raw, empty, decls) /\ Chunked!OpenTag(raw, empty, decls)
    \/ \E raw \in DocPrefix :
          Whole!CloseTag(raw, "return") /\ Chunked!CloseTag(raw, "return")

(* The rest of a tag, step by step.                                        *)
ReadTag ==
    \/ Whole!Declare /\ Chunked!Declare
    \/ Whole!AttributeError("return") /\ Chunked!AttributeError("return")
    \/ Whole!OpenEvent("return") /\ Chunked!OpenEvent("return")
    \/ Whole!CloseEmpty("return") /\ Chunked!CloseEmpty("return")

Begin == Whole!Parse /\ Chunked!Write

(* A chunk ends and the next one begins; the whole document has no such    *)
(* place.                                                                  *)
NewChunk ==
    /\ \/ \E partial \in BOOLEAN : Chunked!ChunkEnd(partial)
       \/ c_streaming /\ Chunked!Write
    /\ UNCHANGED wholeVars

(* The chunks after one with an error are ignored, whereas a whole text is *)
(* read on after a wrong xmlns:xml.                                        *)
ReadAlone ==
    /\ c_pc = "idle" /\ c_error # None /\ pc # "idle"
    /\ Whole!Next
    /\ UNCHANGED chunkedVars

(* After its last chunk the stream is ended.                               *)
LastChunk ==
    /\ Chunked!End
    /\ UNCHANGED wholeVars

(* The end of the text, perhaps in the middle of a section.                *)
Finish == \E partial \in BOOLEAN : Whole!Eof(partial) /\ Chunked!Eof(partial)

Next == ReadSection \/ ReadTag \/ Begin \/ NewChunk \/ ReadAlone \/ LastChunk \/ Finish

Spec == Init /\ [][Next]_<<wholeVars, chunkedVars>>

-----------------------------------------------------------------------------
AnonymousNeeded ==
    \E u \in Uri, i \in DOMAIN Anon :
        /\ Config[u] = None
        /\ Anon[i] \in {uriPrefix[u], c_uriPrefix[u]}

(* The chunks of a stream, cut between sections or within them (but not    *)
(* after a > in a quoted value), do not change what is read: the same tags *)
(* stay open, the same error is met, and the same events are reported,     *)
(* under names that can only differ when one of them had to be made up.    *)
(* After a wrong xmlns:xml a stream ends with its chunk, a whole text does *)
(* not: nothing is said of them then.                                      *)
SameReading ==
    c_pc = pc /\ c_error # Whole!WrongXml =>
        /\ nodeStack = c_nodeStack /\ error = c_error
        /\ event.kind = c_event.kind /\ event.raw = c_event.raw
        /\ ~AnonymousNeeded => event.name = c_event.name /\ matrix = c_matrix

(* The same result regardless of chunking, made-up names included          *)
(* (tests/saxen/test_stream.py).                                           *)
SameNames == c_pc = pc => event = c_event
=============================================================================
