---------------------------- MODULE MCProxyCache ----------------------------
(* ProxyCache with children that are interchangeable, in its scenarios.    *)
EXTENDS ProxyCache, TLC

Symmetry == Permutations(Children)

Scenario(u, r, n, d, b) ==
  [updates |-> u, remove |-> r, stops |-> n, descriptors |-> d, running |-> b]

\* One client after another: the origin's files change or are removed until
\* the proxy is out of descriptors; or the servers are started in any order,
\* one of them is stopped and started again, and a file changes once.
MCSequential == {Scenario(2, TRUE, 0, 7, TRUE), Scenario(1, FALSE, 1, 5, FALSE)}

\* Two at a time: a file changes, or the proxy is stopped as well.
MCConcurrent == {Scenario(1, FALSE, 0, 5, TRUE), Scenario(1, FALSE, 1, 3, TRUE)}

\* A file changes once; descriptors are no matter.
MCOneChange == {Scenario(1, FALSE, 0, 9, TRUE)}

=============================================================================
