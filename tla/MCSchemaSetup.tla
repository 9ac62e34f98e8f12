---------------------------- MODULE MCSchemaSetup ----------------------------
(* Small instances of SchemaSetup for TLC. *)
EXTENDS SchemaSetup

CONSTANTS title, tags, laptop, server

TwoColumns == <<title, tags>>
TwoScopes  == <<"memory", "knowledge">>
=============================================================================
