------------------------------ MODULE MCServer ------------------------------
(* Server on small instances. *)
EXTENDS Server, TLC

\* example.env with its blanks filled in.
Complete ==
    [name \in Variables |->
        CASE name = "IS_VO1D_PRODUCTION" -> Text("no")
          [] name = "IS_VO1D_TESTING" -> Text("no")
          [] name = "PORT" -> Number(16000)
          [] name = "JWT_EXPIRE_IN" -> Number(7200)
          [] name \in {"REFRESH_EXPIRE_IN", "SIGNATURE_WINDOW_SECONDS",
                       "THROTTLE_TTL_SECONDS", "THROTTLE_LIMIT"} -> Text("empty")
          [] name = "UPLOAD_MAX_SIZE_MB" -> Number(5)
          [] name = "AUTH_EXTERNAL_PROVIDER" -> Text("provider")
          [] OTHER -> Text("word")]

Values(name) ==
    CASE name \in {"IS_VO1D_PRODUCTION", "IS_VO1D_TESTING"} ->
            {Text("yes"), Text("blank"), Text("word")}
      [] name = "JWT_EXPIRE_IN" ->
            {Text("blank"), Text("word"), Number(0), Number(1), Duration(1)}
      [] name \in {"REFRESH_EXPIRE_IN", "SIGNATURE_WINDOW_SECONDS", "THROTTLE_LIMIT",
                   "THROTTLE_TTL_SECONDS", "UPLOAD_MAX_SIZE_MB"} ->
            {Text("word"), Number(-10), Number(3)}
      [] name = "PORT" ->
            {Text("empty"), Text("blank"), Text("word"), Number(1), Number(2 * 70000)}
      [] name = "AUTH_EXTERNAL_PROVIDER" -> {Text("blank"), Text("word")}
      [] OTHER -> {Text("unset"), Text("blank")}

\* One variable is not as it should be.
OneOff == {Complete} \cup
          UNION {{[Complete EXCEPT ![name] = x] : x \in Values(name)} :
                     name \in Variables}
=============================================================================
