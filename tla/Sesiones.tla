------------------------------ MODULE Sesiones ------------------------------
(***************************************************************************)
(* Who a request is from: the tokens AuthService signs, the audit context  *)
(* LoggingMiddleware opens, the guards behind it, and the accounts, which  *)
(* are removed and disabled while tokens of theirs are about.              *)
(*                                                                         *)
(* Tokens are of three signatures, with three secrets that are taken to    *)
(* differ: JWT_SECRET, of the external authorisation service, and          *)
(* ACCESS_TOKEN_SECRET and ACCESS_TOKEN_REFRESH_SECRET, of this API.       *)
(***************************************************************************)
EXTENDS Integers, FiniteSets

CONSTANTS
  Usuarios,               \* account ids
  Clientes,               \* apps; each waits for its answer
  Externos,               \* tokens the external service has issued
  VidaAccess, VidaRefresh,\* ACCESS_TOKEN_EXPIRES_IN, ACCESS_TOKEN_REFRESH_EXPIRES_IN
  Nada,
  MaxHora, MaxTokens      \* bounds: time, tokens this API issues

ASSUME SesionesAssumption ==
  /\ Usuarios \subseteq Nat \ {0}
  /\ VidaAccess \in Nat \ {0} /\ VidaRefresh \in Nat /\ MaxHora \in Nat /\ MaxTokens \in Nat
  /\ Nada \notin Usuarios

Firmas == {"jwt", "access", "refresh"}

(* The claims a guard looks at.                                            *)
Token == [firma: Firmas, id: Usuarios \cup {Nada}, sub: Usuarios \cup {Nada}, exp: Nat]

ASSUME ExternosAssumption ==
  /\ Nada \notin Token
  /\ Externos \subseteq {t \in Token : t.firma = "jwt"}

VARIABLES
  jwtSecret,   \* JWT_SECRET is set
  hora,
  cuenta,      \* each account
  eliminadaEn, \* history: when it was removed
  emitidos,    \* tokens this API has signed
  peticion     \* what each client waits for

vars == <<jwtSecret, hora, cuenta, eliminadaEn, emitidos, peticion>>

Estados == {"activa", "inactiva", "eliminada"}
Pasos == {"libre", "firmar", "guardia", "atendida", "rechazada"}
Guardias == {"flexible", "admin"}

Peticion ==
  [pc: Pasos, token: Token \cup {Nada}, guardia: Guardias, auditUserId: Usuarios \cup {0},
   user: Usuarios \cup {Nada}, cuando: Nat]

Libre ==
  [pc |-> "libre", token |-> Nada, guardia |-> "flexible", auditUserId |-> 0,
   user |-> Nada, cuando |-> 0]

Init ==
  /\ jwtSecret \in BOOLEAN
  /\ hora = 0
  /\ cuenta = [u \in Usuarios |-> "activa"]
  /\ eliminadaEn = [u \in Usuarios |-> 0]
  /\ emitidos = {}
  /\ peticion = [c \in Clientes |-> Libre]

En(c, paso) == peticion[c].pc = paso
ListoPara(c) == peticion[c].pc \in {"libre", "atendida", "rechazada"}

-----------------------------------------------------------------------------
(* jwt.verify: the signature is looked at before the expiry.               *)
Vigente(t) == hora < t.exp
Verifica(t, firma) == t.firma = firma /\ Vigente(t)

(* Mutant of ResolveAuditUserId: this API's secret is the only one tried.  *)
ResolveAuditUserIdPropio(t) ==
  IF t # Nada /\ Verifica(t, "access") /\ t.sub # Nada THEN t.sub ELSE 0

(* The middleware runs before the guards: there is only the token.         *)
ResolveAuditUserId(t) ==
  IF t = Nada THEN 0
  ELSE IF jwtSecret /\ Verifica(t, "jwt") /\ t.id # Nada THEN t.id
  ELSE IF Verifica(t, "access") /\ t.sub # Nada THEN t.sub ELSE 0

(* The user the guard gives the request, or Nada when it throws.           *)
FlexibleJwtAuthGuard(t) ==
  IF t = Nada THEN Nada
  ELSE IF jwtSecret /\ Verifica(t, "jwt") /\ t.id # Nada THEN t.id
  ELSE IF Verifica(t, "access") THEN t.sub ELSE Nada

AdminAuthGuard(t) == IF t # Nada /\ jwtSecret /\ Verifica(t, "jwt") THEN t.id ELSE Nada

CanActivate(guardia, t) ==
  IF guardia = "flexible" THEN FlexibleJwtAuthGuard(t) ELSE AdminAuthGuard(t)

(* A request with a token, of any kind, or without: LoggingMiddleware.     *)
Pedir(c, t, guardia) ==
  /\ ListoPara(c)
  /\ peticion' = [peticion EXCEPT ![c] =
       [Libre EXCEPT !.pc = "guardia", !.token = t, !.guardia = guardia,
                     !.auditUserId = ResolveAuditUserId(t)]]
  /\ UNCHANGED <<jwtSecret, hora, cuenta, eliminadaEn, emitidos>>

Guardia(c) ==
  LET user == CanActivate(peticion[c].guardia, peticion[c].token) IN
  /\ En(c, "guardia")
  /\ peticion' = [peticion EXCEPT ![c].user = user, ![c].cuando = hora,
                                  ![c].pc = IF user = Nada THEN "rechazada" ELSE "atendida"]
  /\ UNCHANGED <<jwtSecret, hora, cuenta, eliminadaEn, emitidos>>

-----------------------------------------------------------------------------
(* AuthService.                                                            *)

Rechazar(c) == peticion' = [peticion EXCEPT ![c] = [Libre EXCEPT !.pc = "rechazada"]]
AFirmar(c, u) == peticion' = [peticion EXCEPT ![c] = [Libre EXCEPT !.pc = "firmar", !.user = u]]

(* validateUser, with the right password: the account is read.             *)
Login(c, u) ==
  /\ ListoPara(c)
  /\ IF cuenta[u] = "activa" THEN AFirmar(c, u) ELSE Rechazar(c)
  /\ UNCHANGED <<jwtSecret, hora, cuenta, eliminadaEn, emitidos>>

(* Mutant of PuedeRenovar: the token is enough.                            *)
PuedeRenovarSinCuenta(t) == Verifica(t, "refresh")

(* The account is looked for: a disabled one is found, a removed one not.  *)
PuedeRenovar(t) == Verifica(t, "refresh") /\ cuenta[t.sub] # "eliminada"

RefreshTokens(c, t) ==
  /\ ListoPara(c)
  /\ IF PuedeRenovar(t) THEN AFirmar(c, t.sub) ELSE Rechazar(c)
  /\ UNCHANGED <<jwtSecret, hora, cuenta, eliminadaEn, emitidos>>

AccessToken(u) == [firma |-> "access", id |-> Nada, sub |-> u, exp |-> hora + VidaAccess]
RefreshToken(u) == [firma |-> "refresh", id |-> Nada, sub |-> u, exp |-> hora + VidaRefresh]

GenerateTokenPair(c) ==
  LET u == peticion[c].user IN
  /\ En(c, "firmar")
  /\ emitidos' = emitidos \cup {AccessToken(u), RefreshToken(u)}
  /\ Cardinality(emitidos') <= MaxTokens
  /\ peticion' = [peticion EXCEPT ![c] = Libre]
  /\ UNCHANGED <<jwtSecret, hora, cuenta, eliminadaEn>>

-----------------------------------------------------------------------------
(* The account's own life (Cuenta), an operator, and time.                 *)

Eliminar(u) ==
  /\ cuenta[u] # "eliminada"
  /\ cuenta' = [cuenta EXCEPT ![u] = "eliminada"]
  /\ eliminadaEn' = [eliminadaEn EXCEPT ![u] = hora]
  /\ UNCHANGED <<jwtSecret, hora, emitidos, peticion>>

Desactivar(u) ==
  /\ cuenta[u] = "activa"
  /\ cuenta' = [cuenta EXCEPT ![u] = "inactiva"]
  /\ UNCHANGED <<jwtSecret, hora, eliminadaEn, emitidos, peticion>>

(* An hour is longer than it takes to sign what was just read.             *)
Tic ==
  /\ hora < MaxHora
  /\ \A c \in Clientes : ~En(c, "firmar")
  /\ hora' = hora + 1
  /\ UNCHANGED <<jwtSecret, cuenta, eliminadaEn, emitidos, peticion>>

Next ==
  \/ \E c \in Clientes :
       \/ \E t \in emitidos \cup Externos \cup {Nada}, g \in Guardias : Pedir(c, t, g)
       \/ Guardia(c)
       \/ \E u \in Usuarios : Login(c, u)
       \/ \E t \in {x \in emitidos : x.firma = "refresh"} : RefreshTokens(c, t)
       \/ GenerateTokenPair(c)
  \/ \E u \in Usuarios : Eliminar(u) \/ Desactivar(u)
  \/ Tic

Spec == Init /\ [][Next]_vars

-----------------------------------------------------------------------------
TypeOK ==
  /\ jwtSecret \in BOOLEAN
  /\ hora \in Nat
  /\ cuenta \in [Usuarios -> Estados]
  /\ eliminadaEn \in [Usuarios -> Nat]
  /\ emitidos \subseteq {t \in Token : t.firma # "jwt" /\ t.sub # Nada}
  /\ peticion \in [Clientes -> Peticion]

(* "con la misma lógica que FlexibleJwtAuthGuard" (audit.utils.ts:14): the *)
(* writes of a request that a guard lets through are recorded as its       *)
(* user's, although the two read the token at different moments.           *)
IdentidadUnica ==
  \A c \in Clientes : En(c, "atendida") => peticion[c].auditUserId = peticion[c].user

(* Nobody revokes tokens, and yet a removed account is not served for      *)
(* longer than an access token lasts, however its tokens were renewed and  *)
(* whatever was in flight when it was removed.                             *)
AccesoAcotado ==
  \A c \in Clientes :
    LET p == peticion[c] IN
    p.pc = "atendida" /\ p.token.firma = "access" /\ cuenta[p.user] = "eliminada" =>
      p.cuando < eliminadaEn[p.user] + VidaAccess

=============================================================================
