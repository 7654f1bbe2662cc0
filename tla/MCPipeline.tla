----------------------------- MODULE MCPipeline -----------------------------
(* Model checking of Pipeline: run slots and clicks are interchangeable.  The *)
(* properties below do not hold; each has a .cfg that shows it (see README).  *)
EXTENDS Pipeline, TLC

Symmetry == Permutations(Runs) \cup Permutations(Clicks)

\* PublishedMeansRecorded without its exception: a delete between
\* finalize_node's SELECT and its commit.
PublishedHasShare ==
    \A p \in Posts : rows[p].status = "published" => rows[p].lid # 0

\* NotBeforeSlot without its exception: a second click on the same approval.
NeverEarly ==
    [][\A r \in Runs : Publishes(r) /\ ~run[r].st.skip
          => now >= rows[run[r].st.post].slot]_vars

\* A decision is only taken for the answer on its own post.
NeverCrossed ==
    [][\A r \in Runs, c \in Clicks :
          /\ Idle(r) /\ run'[r].pc = "approve"
          /\ clicks[c] # NoClick /\ clicks'[c] = NoClick
          => clicks[c][1] = run'[r].st.post]_vars
=============================================================================
