------------------------ MODULE MCDependencyTracker ------------------------
(* Three invocations that share two resources and two namespaces, so that  *)
(* a bucket can lose one of several members and its last one.              *)
EXTENDS DependencyTracker

MCGVKs       == {"ConfigMap"}
MCNamespaces == {"", "prod"}
MCNames      == {"settings"}
=============================================================================
