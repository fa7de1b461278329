------------------------------ MODULE PrintfCall ------------------------------
(* A call of one of the printf functions: the format, which it reads character  *)
(* by character, the arguments that va_arg gives it, and what it puts out.      *)
EXTENDS Formats

VARIABLES
    lib,      (* Which of the printf functions runs.                            *)
    items,    (* What the caller means.                                         *)
    p,        (* The place of the format looked at.                             *)
    taken,    (* How many arguments va_arg has given.                           *)
    out       (* The characters put out.                                        *)

CallInit == p = 1 /\ taken = 0 /\ out = << >>

More == p <= Len(Format(items))
Char == Format(items)[p]

(* The k-th argument that va_arg gives from here.                               *)
Arg(k) == AllArguments(items)[taken + k]
================================================================================
