------------------------------ MODULE FileContents ------------------------------
(* What a file holds besides whole contents, for AtomicNewFile and Bootstrap. *)
CONSTANTS
    None,  \* the path does not exist
    Torn   \* it holds part of a content
================================================================================
