----------------------------- MODULE MCStartup -----------------------------
(***************************************************************************)
(* Startup for TLC: two families of environments.                          *)
(***************************************************************************)
EXTENDS Startup

CONSTANTS sub, repo, tmp, top, data, lib, site

(* Launches from a directory of the repository, its root, and elsewhere.   *)
MCWalks == {<<sub, repo, top>>, <<repo, top>>, <<tmp, top>>}

PlainKey == [marks |-> {}, length |-> "plausible"]

(* The shipped configuration, launched in a checkout with a wheel install. *)
Shipped ==
    [ override |-> None, dotenv |-> {repo}, project |-> {repo}, config |-> {repo},
      app |-> FALSE, module |-> lib, package |-> site,
      key |-> PlainKey, allow |-> FALSE, raw |-> "filesystem", spaces |-> {},
      rawPath |-> Relative, db |-> "aiosqlite", dbPath |-> Relative,
      yaml |-> "good", yamlPath |-> Relative ]

(* Where files are, and which paths are relative.                          *)
MCPlaces ==
    { [Shipped EXCEPT !.override = f[1], !.dotenv = f[2], !.project = p, !.config = c,
                      !.app = a, !.module = m, !.raw = r,
                      !.spaces = SpacesCredentials, !.rawPath = rp,
                      !.db = d[1], !.dbPath = d[2], !.yamlPath = data] :
        f \in {<<repo, {sub}>>} \cup ({None} \X SUBSET {sub, repo, top, lib}),
        p \in {{}, {repo}, {sub}}, c \in {{}, {repo}}, a \in BOOLEAN,
        m \in {lib, repo}, r \in {"filesystem", "spaces"}, rp \in {Relative, data},
        d \in {<<"aiosqlite", Relative>>, <<"aiosqlite", data>>, <<"server", data>>} }

(* What the settings and the configuration say.                            *)
MCSettings ==
    { [Shipped EXCEPT !.key = k, !.allow = a, !.raw = r, !.spaces = s, !.db = d,
                      !.yaml = y, !.yamlPath = data] :
        k \in [marks : {{}, {"fake"}, {"change-me"}, {"fake", "secret-here"}, {"test"}},
               length : {"short", "plausible"}]
              \cup {[marks |-> {}, length |-> "none"]},
        a \in BOOLEAN, r \in {"filesystem", "spaces"},
        s \in {{}, {"key", "secret"}, {"bucket"}, SpacesCredentials},
        d \in {"aiosqlite", "sqlite", "server"},
        y \in {"good", "absent", "missing"} \cup BadYaml }

MCEnvironments == MCPlaces \cup MCSettings

=============================================================================
