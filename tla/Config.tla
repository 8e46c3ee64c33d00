------------------------------- MODULE Config -------------------------------
(***************************************************************************)
(* How the three programs put their configuration together: the functions  *)
(* of configs/config.go, which differ only in their tables, and the        *)
(* precedence of viper, which is not the repository's: a flag that was     *)
(* given, the environment, the file, the default.                          *)
(*                                                                         *)
(* What matters of a value is where it comes from.  Keys of viper have no  *)
(* case and are written in capitals.  The logger's keys are left out.      *)
(***************************************************************************)

\* The tags of a configuration struct, those of them that are
\* validate:"required", the defaults, the flags, the variables that the
\* comment describes and those of envVars.
Api ==
    [fields |-> {"PORT", "DATABASE_URI", "API_SECRET", "TOKEN_EXPIRE",
                 "CERT_FILE", "PKEY_FILE", "CLIENT.DOMAIN_NAME"},
     required |-> {"DATABASE_URI", "API_SECRET", "TOKEN_EXPIRE", "CERT_FILE",
                   "PKEY_FILE"},
     defaults |-> {"PORT", "CLIENT.DOMAIN_NAME", "TOKEN_EXPIRE"},
     flags |-> {"PORT"},
     documented |-> {"PORT", "DOMAIN_NAME", "DATABASE_URI", "API_SECRET",
                     "CERT_FILE", "PKEY_FILE"},
     envVars |-> {"PORT", "DOMAIN_NAME", "DATABASE_URI", "API_SECRET",
                  "TOKEN_EXPIRE", "CERT_FILE", "PKEY_FILE"}]

Bot ==
    [fields |-> {"PORT", "BOT_TOKEN", "CA_CERT", "SERVER_CERT", "SERVER_PKEY",
                 "DATABASE_URI"},
     required |-> {"BOT_TOKEN", "CA_CERT", "SERVER_CERT", "SERVER_PKEY",
                   "DATABASE_URI"},
     defaults |-> {"PORT"},
     flags |-> {"PORT", "BOT_TOKEN", "DATABASE_URI"},
     documented |-> {"PORT", "BOT_TOKEN", "CA_CERT", "SERVER_CERT",
                     "SERVER_PKey", "DATABASE_URI"},
     envVars |-> {"PORT", "BOT_TOKEN", "CA_CERT", "SERVER_CERT", "SERVER_PKey",
                  "DATABASE_URI"}]

Client ==
    [fields |-> {"SERVER_ADDR", "CA_CERT", "CLIENT_CERT", "PLC_URI", "DEVICES",
                 "NOTIFICATIONS"},
     required |-> {"CA_CERT", "CLIENT_CERT", "PLC_URI", "DEVICES",
                   "NOTIFICATIONS"},
     defaults |-> {"SERVER_ADDR"},
     flags |-> {"SERVER_ADDR", "PLC_URI"},
     documented |-> {"SERVER_ADDR", "CA_CERT", "CLIENT_CERT", "PLC_URI"},
     envVars |-> {"SERVER_ADDR", "CA_CERT", "CLIENT_CERT", "PLC_URI"}]

Configured == [api |-> Api, bot |-> Bot, client |-> Client]
Programs == DOMAIN Configured
Fields(p) == Configured[p].fields

\* viper.BindEnv(v): the key v reads the variable of its name in capitals.
BindEnv(v) == IF v = "SERVER_PKey" THEN "SERVER_PKEY" ELSE v
Bound(p) == {BindEnv(v) : v \in Configured[p].envVars}

\* s: the flags given, the variables of the environment, the keys of the file.
Source(p, s, k) ==
    IF k \in Configured[p].flags \intersect s.flags THEN "flag"
    ELSE IF k \in Bound(p) \intersect s.env THEN "env"
    ELSE IF k \in s.file THEN "file"
    ELSE IF k \in Configured[p].defaults THEN "default"
    ELSE "none"

\* Unmarshal.  The alias that postProcessing of the api gives to
\* client.domain_name comes after it and has no effect on what it filled in:
\* DOMAIN_NAME is documented and bound, and no field has its value from there.
\* Nor has one from SERVER_PKey, which is looked for in capitals.
newConfig(p, s) == [k \in Fields(p) |-> Source(p, s, k)]

Validate(p, config) == \A k \in Configured[p].required : config[k] # "none"

=============================================================================
