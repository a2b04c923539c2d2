---------------------------- MODULE SystemSettings ----------------------------
(***************************************************************************)
(* What POST /system/setting accepts, what GET /status makes of it and     *)
(* what the handlers that act on a setting read: the JSON of a setting is  *)
(* decoded three times, into a typed variable when it is posted and when   *)
(* it is used, and into an `any' with a type assertion for the status.     *)
(***************************************************************************)
CONSTANT Absent   \* there is no row

\* The Go type a setting is decoded into when it is posted and when it is
\* used.  Service-id and secret-session are no setting one can post.
TypeOf == [
  allow_signup         |-> "bool",
  ignore_upgrade       |-> "bool",
  disable_public_memos |-> "bool",
  additional_style     |-> "string",
  additional_script    |-> "string",
  customized_profile   |-> "profile",
  storage_service_id   |-> "int",
  local_storage_path   |-> "string",
  openai_config        |-> "config"]

Hidden == {"Service_id", "secret_session"}

\* JSON texts; the big integer is one that an int holds and a float64 does not,
\* the odd object one with a locale the server does not have.
Values == {"true", "false", "text", "integer", "big_integer", "fraction",
           "object", "odd_object", "null", "malformed"}

\* json.Unmarshal into a variable of the type; null leaves any variable alone.
Decodes(value, type) ==
  \/ value = "null"
  \/ type = "bool" /\ value \in {"true", "false"}
  \/ type = "string" /\ value = "text"
  \/ type = "int" /\ value \in {"integer", "big_integer"}
  \/ type \in {"profile", "config"} /\ value \in {"object", "odd_object"}

\* (variant: an integer setting is not decoded before it is stored)
ValidateLoosely(name, value) ==
  /\ name \in DOMAIN TypeOf
  /\ Decodes(value, TypeOf[name]) \/ TypeOf[name] = "int"
  /\ TypeOf[name] = "profile" => value # "odd_object"

Validate(name, value) ==
  /\ name \in DOMAIN TypeOf
  /\ Decodes(value, TypeOf[name])
  /\ TypeOf[name] = "profile" => value # "odd_object"

-----------------------------------------------------------------------------
Default(type) ==
  CASE type = "bool" -> "false"
    [] type = "int" -> "zero"       \* DatabaseStorage
    [] type = "string" -> "empty"
    [] OTHER -> "default"

\* The settings other handlers read.
ActedOn == {"allow_signup", "disable_public_memos", "storage_service_id",
            "local_storage_path"}

\* What such a handler acts on: the variable with its default, decoded into.
Used(name, value) ==
  IF value \in {Absent, "null"} THEN Default(TypeOf[name]) ELSE value

\* The type assertion on the decoded `any'; the profile is decoded again.
Asserts(value, type) ==
  CASE type = "bool" -> value \in {"true", "false"}
    [] type = "string" -> value = "text"
    [] type = "int" -> value \in {"integer", "big_integer", "fraction"}
    [] type = "profile" -> Decodes(value, type)
    [] OTHER -> TRUE                \* skipped

\* GET /status over the stored settings: whether it answers, or panics and
\* is answered for by gin with an error.
Answers(stored) ==
  \A name \in DOMAIN stored :
    stored[name] \in {Absent, "malformed"} \/ Asserts(stored[name], TypeOf[name])

\* int(baseValue.(float64)): a number that went through a float64.
Float64(value) == IF value \in {"big_integer", "fraction"} THEN "another" ELSE value

\* The field of the answer for a setting.
Shown(name, value) ==
  IF value \in {Absent, "malformed"} THEN Default(TypeOf[name])
  ELSE IF TypeOf[name] = "int" THEN Float64(value) ELSE value
=============================================================================
