---- MODULE MCFileStore ----
(* A small instance of FileStore: two contents, two concurrent stores. *)
EXTENDS FileStore
====
