--------------------------- MODULE MCArchiveStore ---------------------------
(* Two sources, three contents of which two share a timestamp, and batches   *)
(* that complete, contradict, repeat and lack each other.                    *)
EXTENDS ArchiveStore
CONSTANTS s1, s2

Content(i, c, reply, text) == [id |-> i, context |-> c, reply |-> reply, text |-> text]
Of(contents, talks, warnings, version) ==
    [contents |-> contents, talks |-> talks, warnings |-> warnings, version |-> version]
Talks == {[id |-> 1, text |-> 1], [id |-> 2, text |-> 1]}
One == Of({Content(1, 1, 3, 1), Content(2, 1, None, 1)}, Talks, 1, 2)
Other == Of({Content(2, 1, 1, 2), Content(3, 2, None, 1)}, {}, 0, 1)
MCBatch == {One, Other}

\* A file of version 1: an import that was running, and one that had failed.
Old(phase) ==
    AppendRows([Account(EmptyDb) EXCEPT
                  !.source[s1] = [state |-> StateOf(phase), print |-> CHOOSE p \in Archive : TRUE,
                                  mapped |-> FALSE],
                  !.run[s1] = [NoRun EXCEPT !.phase = phase, !.session = 0]], s1, Other)

MCLegacy == {Old("importing"), Old("failed")}
MCQuery == {[source |-> s1, kind |-> "content", within |-> {1, 2}],
            [source |-> s2, kind |-> "conversation", within |-> {}]}
=============================================================================
