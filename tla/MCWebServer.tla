---------------------------- MODULE MCWebServer ----------------------------
(* Two control blocks whose replies compete for a heap with room for one.  *)
EXTENDS WebServer
=============================================================================
