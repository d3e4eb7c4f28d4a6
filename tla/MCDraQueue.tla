----------------------------- MODULE MCDraQueue -----------------------------
(* Instances of DraQueue for TLC.                                          *)
EXTENDS DraQueue

Other(kind, nc, src, opts, flags) ==
  [kind |-> kind, nc |-> nc, src |-> src, opts |-> opts, flags |-> flags]

\* The schema, and a read-only context with a link that was preempted before
\* the server stopped, to be synchronised at startup, and one that is disabled.
ReadOnlyLinks == (<<"schema", "a">> :> {"writ"})
                   @@ (<<"ro", "a">> :> {"preempted", "init"})
                   @@ (<<"ro", "b">> :> {"neversynced", "disabled"})

\* Syncs of one source and of all at several priorities, links added, changed
\* and removed, and callers who wait.
QueueCalls ==
  { Sync("ro", "a", {"async", "per"}),
    Sync("ro", "a", {"async", "all"}),
    Sync("ro", "a", {"async", "all", "nevernotify"}),
    Sync("ro", "a", {"all"}),
    Sync("ro", "b", {"byname"}),
    Other("add", "ro", "b", {}, {}),
    Other("add", "ro", "b", {"asyncrep"}, {}),
    Other("del", "ro", "b", {"async"}, {}),
    Other("mod", "ro", "a", {"async"}, {"nevernotify"}),
    Other("refs", "ro", "a", {"async", "verify"}, {}) }

\* To synchronise before the server advertises itself: the domain, which never
\* completed a cycle, and a read-only context from two sources.
InitLinks == (<<"domain", "a">> :> {"writ", "neversynced", "init"})
               @@ (<<"ro", "a">> :> {"init"})
               @@ (<<"ro", "b">> :> {"init"})

\* Meanwhile a link is removed, or a sync on request reports first.
InitCalls == { Other("del", "domain", "a", {"async"}, {}), Sync("domain", "a", {}) }
=============================================================================
