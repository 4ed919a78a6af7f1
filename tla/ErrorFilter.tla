---------------------------- MODULE ErrorFilter ----------------------------
(***************************************************************************)
(* ErrorFilter: what a caller is told of whatever a handler threw.  Texts  *)
(* are kept only as far as they differ in where they come from.            *)
(***************************************************************************)
EXTENDS Naturals

\* An HttpException is thrown with a text, or with a body of fields.
HttpException(status, body) ==
    [class |-> "HttpException", status |-> status, body |-> body]

TextBody(text) == [message |-> text, errors |-> "null"]
ErrorsBody(text, errors) == [message |-> text, errors |-> errors]

\* Any other Error: its message is detail, not meant for a caller.
OtherError(detail) == [class |-> "Error", body |-> TextBody(detail)]

(* describe: status, message and errors of the answer.  Nothing of an Error *)
(* that is no HttpException is passed on.                                   *)
Describe(exception) ==
    CASE exception.class = "ZodError" ->
            [status |-> 400, message |-> "Validation failed", errors |-> "fields"]
      [] exception.class = "HttpException" ->
            [status |-> exception.status, message |-> exception.body.message,
             errors |-> exception.body.errors]
      [] OTHER ->
            [status |-> 500, message |-> "Internal Server Error", errors |-> "null"]
=============================================================================
