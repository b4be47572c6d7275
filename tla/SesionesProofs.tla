--------------------------- MODULE SesionesProofs ---------------------------
(***************************************************************************)
(* For any accounts, apps, external tokens and lifetimes: the guards and   *)
(* the audit agree on who a request is from, and a removed account is not  *)
(* served past the life of an access token.                                *)
(***************************************************************************)
EXTENDS Sesiones, TLAPS

(* A pair is signed within the hour the account was seen to be there.      *)
FirmaOK ==
  \A c \in Clientes : En(c, "firmar") =>
    LET u == peticion[c].user IN
    u \in Usuarios /\ (cuenta[u] = "eliminada" => eliminadaEn[u] = hora)

(* What is left of an access token, or was when its account was removed.   *)
VidasOK ==
  \A t \in emitidos : t.firma = "access" =>
    t.exp <= (IF cuenta[t.sub] = "eliminada" THEN eliminadaEn[t.sub] ELSE hora) + VidaAccess

(* A token that a guard would let through is of the user the audit noted.  *)
AuditoriaOK ==
  \A c \in Clientes : En(c, "guardia") =>
    CanActivate(peticion[c].guardia, peticion[c].token)
      \in {peticion[c].auditUserId, Nada}

(* A token with this API's signature has been issued by it.                *)
ProcedenciaOK ==
  \A c \in Clientes : peticion[c].token # Nada /\ peticion[c].token.firma = "access" =>
    peticion[c].token \in emitidos

AtendidaOK ==
  \A c \in Clientes : En(c, "atendida") =>
    LET p == peticion[c] IN
    /\ p.user = p.auditUserId
    /\ p.token \in Token
    /\ p.token.firma = "access" => p.user = p.token.sub /\ p.cuando < p.token.exp

Inv == TypeOK /\ FirmaOK /\ VidasOK /\ AuditoriaOK /\ ProcedenciaOK /\ AtendidaOK

-----------------------------------------------------------------------------
(* The audit reads the token at least as well as any guard.                *)
LEMMA MismaLectura ==
  ASSUME NEW t \in Token \cup {Nada}, NEW g \in Guardias
  PROVE  CanActivate(g, t) \in {ResolveAuditUserId(t), Nada}
<1> Nada \notin Usuarios
  BY SesionesAssumption
<1> QED
  BY DEF CanActivate, FlexibleJwtAuthGuard, AdminAuthGuard, ResolveAuditUserId, Verifica,
         Token, Firmas, Guardias

(* A guard that lets a token through would have done it before.            *)
LEMMA GuardiaAntes ==
  ASSUME NEW t, NEW g, t \in Token \cup {Nada}, g \in Guardias,
         hora \in Nat, hora' = hora + 1, jwtSecret' = jwtSecret
  PROVE  CanActivate(g, t)' \in {CanActivate(g, t), Nada}
<1>1. CASE t = Nada
  BY <1>1 DEF CanActivate, FlexibleJwtAuthGuard, AdminAuthGuard, Guardias
<1>2. CASE t \in Token
  <2>1. t.exp \in Nat
    BY <1>2 DEF Token
  <2>2. Vigente(t)' => Vigente(t)
    BY <2>1 DEF Vigente
  <2> QED
    BY <1>2, <2>2 DEF CanActivate, FlexibleJwtAuthGuard, AdminAuthGuard, Verifica, Guardias,
                      Token, Firmas
<1> QED
  BY <1>1, <1>2

(* What a guard gives of an access token is its sub, before it expires.    *)
LEMMA GuardiaAccess ==
  ASSUME NEW t \in Token \cup {Nada}, NEW g \in Guardias, CanActivate(g, t) # Nada
  PROVE  /\ t \in Token
         /\ CanActivate(g, t) \in Usuarios
         /\ t.firma = "access" => CanActivate(g, t) = t.sub /\ hora < t.exp
BY DEF CanActivate, FlexibleJwtAuthGuard, AdminAuthGuard, Verifica, Vigente, Guardias, Token,
       Firmas

-----------------------------------------------------------------------------
LEMMA Inicio == Init => Inv
<1> SUFFICES ASSUME Init PROVE Inv
  OBVIOUS
<1>1. TypeOK
  BY DEF Init, TypeOK, Peticion, Libre, Pasos, Guardias, Estados
<1> QED
  BY <1>1 DEF Init, Inv, FirmaOK, VidasOK, AuditoriaOK, ProcedenciaOK, AtendidaOK, Libre, En

LEMMA PasoPedir ==
  ASSUME Inv, NEW c \in Clientes, NEW t \in emitidos \cup Externos \cup {Nada},
         NEW g \in Guardias, Pedir(c, t, g)
  PROVE  Inv'
<1>0. peticion \in [Clientes -> Peticion] /\ emitidos \subseteq Token
  BY DEF Inv, TypeOK
<1>1. t \in Token \cup {Nada}
  BY <1>0, ExternosAssumption
<1>2. t # Nada /\ t.firma = "access" => t \in emitidos
  BY ExternosAssumption
<1> DEFINE p == [Libre EXCEPT !.pc = "guardia", !.token = t, !.guardia = g,
                              !.auditUserId = ResolveAuditUserId(t)]
<1>3. /\ peticion' = [peticion EXCEPT ![c] = p]
      /\ UNCHANGED <<jwtSecret, hora, cuenta, eliminadaEn, emitidos>>
  BY DEF Pedir
<1>4. ResolveAuditUserId(t) \in Usuarios \cup {0}
  BY <1>1 DEF ResolveAuditUserId, Token
<1>5. /\ p \in Peticion
      /\ p.pc = "guardia" /\ p.token = t /\ p.guardia = g
      /\ p.auditUserId = ResolveAuditUserId(t)
  BY <1>1, <1>4 DEF Libre, Peticion, Pasos, Guardias
<1> HIDE DEF p
<1>6. /\ peticion'[c] = p
      /\ \A d \in Clientes \ {c} : peticion'[d] = peticion[d]
  BY <1>0, <1>3
<1>7. TypeOK'
  BY <1>3, <1>5 DEF Inv, TypeOK
<1>8. \A h, x : (CanActivate(h, x) = CanActivate(h, x)')
  BY <1>3 DEF CanActivate, FlexibleJwtAuthGuard, AdminAuthGuard, Verifica, Vigente
<1>9. FirmaOK' /\ VidasOK'
  BY <1>3, <1>5, <1>6 DEF Inv, FirmaOK, VidasOK, En
<1>10. AuditoriaOK'
  <2>1. CanActivate(g, t) \in {ResolveAuditUserId(t), Nada}
    BY <1>1, MismaLectura
  <2>2. \A d \in Clientes : peticion[d].guardia \in Guardias
    BY <1>0 DEF Peticion
  <2> QED
    BY <1>5, <1>6, <1>8, <2>1, <2>2 DEF Inv, AuditoriaOK, En
<1>11. ProcedenciaOK' /\ AtendidaOK'
  BY <1>2, <1>3, <1>5, <1>6 DEF Inv, ProcedenciaOK, AtendidaOK, En
<1> QED
  BY <1>7, <1>9, <1>10, <1>11 DEF Inv

LEMMA PasoGuardia ==
  ASSUME Inv, NEW c \in Clientes, Guardia(c)
  PROVE  Inv'
<1>0. peticion \in [Clientes -> Peticion] /\ peticion[c] \in Peticion /\ hora \in Nat
  BY DEF Inv, TypeOK
<1> DEFINE i == peticion[c]
           user == CanActivate(i.guardia, i.token)
           p == [i EXCEPT !.user = user, !.cuando = hora,
                          !.pc = IF user = Nada THEN "rechazada" ELSE "atendida"]
<1>1. /\ En(c, "guardia")
      /\ peticion' = [peticion EXCEPT ![c] = p]
      /\ UNCHANGED <<jwtSecret, hora, cuenta, eliminadaEn, emitidos>>
  BY <1>0 DEF Guardia
<1>2. i.token \in Token \cup {Nada} /\ i.guardia \in Guardias
  BY <1>0 DEF Peticion
<1>3. user # Nada => /\ i.token \in Token
                     /\ user \in Usuarios
                     /\ user = i.auditUserId
                     /\ i.token.firma = "access" => user = i.token.sub /\ hora < i.token.exp
  BY <1>1, <1>2, GuardiaAccess DEF Inv, AuditoriaOK
<1> HIDE DEF user
<1>4. /\ p \in Peticion
      /\ p.pc = (IF user = Nada THEN "rechazada" ELSE "atendida")
      /\ p.user = user /\ p.cuando = hora /\ p.token = i.token /\ p.guardia = i.guardia
      /\ p.auditUserId = i.auditUserId
  BY <1>0, <1>3 DEF Peticion, Pasos
<1> HIDE DEF p
<1>5. /\ peticion'[c] = p
      /\ \A d \in Clientes \ {c} : peticion'[d] = peticion[d]
  BY <1>0, <1>1
<1>6. TypeOK'
  BY <1>1, <1>4 DEF Inv, TypeOK
<1>7. \A h, x : (CanActivate(h, x) = CanActivate(h, x)')
  BY <1>1 DEF CanActivate, FlexibleJwtAuthGuard, AdminAuthGuard, Verifica, Vigente
<1>8. FirmaOK' /\ VidasOK' /\ AuditoriaOK'
  BY <1>1, <1>4, <1>5, <1>7 DEF Inv, FirmaOK, VidasOK, AuditoriaOK, En
<1>9. ProcedenciaOK' /\ AtendidaOK'
  BY <1>1, <1>3, <1>4, <1>5 DEF Inv, ProcedenciaOK, AtendidaOK, En
<1> QED
  BY <1>6, <1>8, <1>9 DEF Inv

(* A client starts to wait for a pair of u, who has just been looked up.   *)
LEMMA PasoAFirmar ==
  ASSUME Inv, NEW c \in Clientes, NEW u \in Usuarios,
         (AFirmar(c, u) /\ cuenta[u] # "eliminada") \/ Rechazar(c),
         UNCHANGED <<jwtSecret, hora, cuenta, eliminadaEn, emitidos>>
  PROVE  Inv'
<1>0. peticion \in [Clientes -> Peticion] /\ \A d \in Clientes : peticion[d] \in Peticion
  BY DEF Inv, TypeOK
<1>1. PICK p \in Peticion :
        /\ peticion' = [peticion EXCEPT ![c] = p]
        /\ p.token = Nada
        /\ \/ p.pc = "firmar" /\ p.user = u /\ cuenta[u] # "eliminada"
           \/ p.pc = "rechazada"
  <2>1. CASE AFirmar(c, u) /\ cuenta[u] # "eliminada"
    <3>1. [Libre EXCEPT !.pc = "firmar", !.user = u] \in Peticion
      BY DEF Libre, Peticion, Pasos, Guardias
    <3> QED
      BY <2>1, <3>1 DEF AFirmar, Libre
  <2>2. CASE Rechazar(c)
    <3>1. [Libre EXCEPT !.pc = "rechazada"] \in Peticion
      BY DEF Libre, Peticion, Pasos, Guardias
    <3> QED
      BY <2>2, <3>1 DEF Rechazar, Libre
  <2> QED
    BY <2>1, <2>2
<1>2. /\ peticion'[c] = p
      /\ \A d \in Clientes \ {c} : peticion'[d] = peticion[d]
  BY <1>0, <1>1
<1>3. TypeOK'
  BY <1>1 DEF Inv, TypeOK
<1>4. \A h, x : (CanActivate(h, x) = CanActivate(h, x)')
  BY DEF CanActivate, FlexibleJwtAuthGuard, AdminAuthGuard, Verifica, Vigente
<1>5. FirmaOK' /\ VidasOK' /\ AuditoriaOK'
  BY <1>1, <1>2, <1>4 DEF Inv, FirmaOK, VidasOK, AuditoriaOK, En
<1>6. ProcedenciaOK' /\ AtendidaOK'
  BY <1>1, <1>2 DEF Inv, ProcedenciaOK, AtendidaOK, En
<1> QED
  BY <1>3, <1>5, <1>6 DEF Inv

LEMMA PasoGenerar ==
  ASSUME Inv, NEW c \in Clientes, GenerateTokenPair(c)
  PROVE  Inv'
<1>0. /\ peticion \in [Clientes -> Peticion] /\ \A d \in Clientes : peticion[d] \in Peticion
      /\ hora \in Nat /\ eliminadaEn \in [Usuarios -> Nat] /\ cuenta \in [Usuarios -> Estados]
      /\ emitidos \subseteq {t \in Token : t.firma # "jwt" /\ t.sub # Nada}
      /\ VidaAccess \in Nat /\ VidaRefresh \in Nat /\ Nada \notin Usuarios
  BY SesionesAssumption DEF Inv, TypeOK
<1> DEFINE u == peticion[c].user
<1>1. /\ u \in Usuarios
      /\ cuenta[u] = "eliminada" => eliminadaEn[u] = hora
  BY DEF Inv, FirmaOK, GenerateTokenPair, En
<1>2. /\ peticion' = [peticion EXCEPT ![c] = Libre]
      /\ emitidos' = emitidos \cup {AccessToken(u), RefreshToken(u)}
      /\ UNCHANGED <<jwtSecret, hora, cuenta, eliminadaEn>>
  BY DEF GenerateTokenPair
<1>3. /\ Libre \in Peticion /\ Libre.pc = "libre" /\ Libre.token = Nada
  BY DEF Libre, Peticion, Pasos, Guardias
<1>4. /\ {AccessToken(u), RefreshToken(u)} \subseteq
           {t \in Token : t.firma # "jwt" /\ t.sub # Nada}
      /\ AccessToken(u).sub = u /\ AccessToken(u).exp = hora + VidaAccess
      /\ RefreshToken(u).firma = "refresh"
  BY <1>0, <1>1 DEF AccessToken, RefreshToken, Token, Firmas
<1> HIDE DEF u
<1>5. /\ peticion'[c] = Libre
      /\ \A d \in Clientes \ {c} : peticion'[d] = peticion[d]
  BY <1>0, <1>2
<1>6. TypeOK'
  BY <1>2, <1>3, <1>4 DEF Inv, TypeOK
<1>7. \A h, x : (CanActivate(h, x) = CanActivate(h, x)')
  BY <1>2 DEF CanActivate, FlexibleJwtAuthGuard, AdminAuthGuard, Verifica, Vigente
<1>8. FirmaOK' /\ AuditoriaOK'
  BY <1>2, <1>3, <1>5, <1>7 DEF Inv, FirmaOK, AuditoriaOK, En
<1>9. VidasOK'
  <2> SUFFICES ASSUME NEW t \in emitidos', t.firma = "access"
               PROVE  t.exp <= (IF cuenta[t.sub] = "eliminada" THEN eliminadaEn[t.sub]
                                ELSE hora) + VidaAccess
    BY <1>2 DEF VidasOK
  <2>1. CASE t \in emitidos
    BY <2>1 DEF Inv, VidasOK
  <2>2. CASE t = AccessToken(u)
    BY <2>2, <1>0, <1>1, <1>4
  <2> QED
    BY <1>2, <1>4, <2>1, <2>2
<1>10. ProcedenciaOK' /\ AtendidaOK'
  BY <1>2, <1>3, <1>5 DEF Inv, ProcedenciaOK, AtendidaOK, En
<1> QED
  BY <1>6, <1>8, <1>9, <1>10 DEF Inv

LEMMA PasoCuenta ==
  ASSUME Inv, NEW u \in Usuarios, Eliminar(u) \/ Desactivar(u)
  PROVE  Inv'
<1>0. /\ hora \in Nat /\ eliminadaEn \in [Usuarios -> Nat] /\ cuenta \in [Usuarios -> Estados]
      /\ emitidos \subseteq {t \in Token : t.firma # "jwt" /\ t.sub # Nada}
  BY DEF Inv, TypeOK
<1>1. UNCHANGED <<jwtSecret, hora, emitidos, peticion>>
  BY DEF Eliminar, Desactivar
<1>2. TypeOK'
  BY <1>0, <1>1 DEF Inv, TypeOK, Eliminar, Desactivar, Estados
<1>3. \A v \in Usuarios :
        \/ cuenta'[v] # "eliminada" /\ cuenta[v] # "eliminada"
        \/ cuenta'[v] = "eliminada" /\ cuenta[v] # "eliminada" /\ eliminadaEn'[v] = hora
        \/ cuenta'[v] = "eliminada" /\ cuenta[v] = "eliminada" /\ eliminadaEn'[v] = eliminadaEn[v]
  BY <1>0 DEF Eliminar, Desactivar
<1>4. \A h, x : (CanActivate(h, x) = CanActivate(h, x)')
  BY <1>1 DEF CanActivate, FlexibleJwtAuthGuard, AdminAuthGuard, Verifica, Vigente
<1>5. FirmaOK'
  BY <1>1, <1>3 DEF Inv, FirmaOK, En
<1>6. VidasOK'
  <2>1. \A t \in emitidos : t.sub \in Usuarios
    BY <1>0 DEF Token
  <2> QED
    BY <1>1, <1>3, <2>1 DEF Inv, VidasOK
<1>7. AuditoriaOK' /\ ProcedenciaOK' /\ AtendidaOK'
  BY <1>1, <1>4 DEF Inv, AuditoriaOK, ProcedenciaOK, AtendidaOK, En
<1> QED
  BY <1>2, <1>5, <1>6, <1>7 DEF Inv

LEMMA PasoTic ==
  ASSUME Inv, Tic
  PROVE  Inv'
<1>0. /\ peticion \in [Clientes -> Peticion]
      /\ hora \in Nat /\ eliminadaEn \in [Usuarios -> Nat] /\ cuenta \in [Usuarios -> Estados]
      /\ emitidos \subseteq {t \in Token : t.firma # "jwt" /\ t.sub # Nada}
      /\ VidaAccess \in Nat
  BY SesionesAssumption DEF Inv, TypeOK
<1>1. /\ hora' = hora + 1
      /\ \A c \in Clientes : ~En(c, "firmar")
      /\ UNCHANGED <<jwtSecret, cuenta, eliminadaEn, emitidos, peticion>>
  BY DEF Tic
<1>2. TypeOK'
  BY <1>0, <1>1 DEF Inv, TypeOK
<1>3. FirmaOK'
  BY <1>1 DEF FirmaOK, En
<1>4. VidasOK'
  <2>1. \A t \in emitidos : t.exp \in Nat /\ t.sub \in Usuarios
    BY <1>0 DEF Token
  <2> QED
    BY <1>0, <1>1, <2>1 DEF Inv, VidasOK
<1>5. AuditoriaOK'
  <2> SUFFICES ASSUME NEW c \in Clientes, En(c, "guardia")
               PROVE  CanActivate(peticion[c].guardia, peticion[c].token)'
                        \in {peticion[c].auditUserId, Nada}
    BY <1>1 DEF AuditoriaOK, En
  <2>1. peticion[c].guardia \in Guardias /\ peticion[c].token \in Token \cup {Nada}
    BY <1>0 DEF Peticion
  <2> DEFINE g == peticion[c].guardia
             t == peticion[c].token
  <2>2. CanActivate(g, t) \in {peticion[c].auditUserId, Nada}
    BY DEF Inv, AuditoriaOK
  <2>3. CanActivate(g, t)' \in {CanActivate(g, t), Nada}
    BY <1>0, <1>1, <2>1, GuardiaAntes
  <2> QED
    BY <2>2, <2>3
<1>6. ProcedenciaOK' /\ AtendidaOK'
  BY <1>1 DEF Inv, ProcedenciaOK, AtendidaOK, En
<1> QED
  BY <1>2, <1>3, <1>4, <1>5, <1>6 DEF Inv

LEMMA Paso == Inv /\ [Next]_vars => Inv'
<1> SUFFICES ASSUME Inv, [Next]_vars PROVE Inv'
  OBVIOUS
<1>1. ASSUME NEW c \in Clientes, NEW u \in Usuarios, Login(c, u) PROVE Inv'
  BY <1>1, PasoAFirmar DEF Login
<1>2. ASSUME NEW c \in Clientes, NEW t \in emitidos, t.firma = "refresh", RefreshTokens(c, t)
      PROVE Inv'
  <2>1. t.sub \in Usuarios
    BY DEF Inv, TypeOK, Token
  <2> QED
    BY <1>2, <2>1, PasoAFirmar DEF RefreshTokens, PuedeRenovar
<1>3. CASE UNCHANGED vars
  <2>1. \A h, x : (CanActivate(h, x) = CanActivate(h, x)')
    BY <1>3 DEF vars, CanActivate, FlexibleJwtAuthGuard, AdminAuthGuard, Verifica, Vigente
  <2> QED
    BY <1>3, <2>1 DEF vars, Inv, TypeOK, FirmaOK, VidasOK, AuditoriaOK, ProcedenciaOK,
                      AtendidaOK, En
<1> QED
  BY <1>1, <1>2, <1>3, PasoPedir, PasoGuardia, PasoGenerar, PasoCuenta, PasoTic DEF Next

LEMMA SesionesInv == Spec => []Inv
  BY Inicio, Paso, PTL DEF Spec

-----------------------------------------------------------------------------
(* The state is of the shape the module declares.                          *)
THEOREM SesionesTipo == Spec => []TypeOK
<1>1. Inv => TypeOK
  BY DEF Inv
<1> QED
  BY <1>1, SesionesInv, PTL

(* The audit records a request under the user its guard gave it.           *)
THEOREM SesionesIdentidadUnica == Spec => []IdentidadUnica
<1>1. Inv => IdentidadUnica
  BY DEF Inv, AtendidaOK, IdentidadUnica
<1> QED
  BY <1>1, SesionesInv, PTL

(* A removed account is served at most VidaAccess after its removal.       *)
THEOREM SesionesAccesoAcotado == Spec => []AccesoAcotado
<1>1. Inv => AccesoAcotado
  <2> SUFFICES ASSUME Inv, NEW c \in Clientes, En(c, "atendida"),
                      peticion[c].token.firma = "access",
                      cuenta[peticion[c].user] = "eliminada"
               PROVE  peticion[c].cuando < eliminadaEn[peticion[c].user] + VidaAccess
    BY DEF AccesoAcotado, En
  <2> DEFINE p == peticion[c]
  <2>1. p \in Peticion /\ VidaAccess \in Nat /\ eliminadaEn \in [Usuarios -> Nat]
    BY SesionesAssumption DEF Inv, TypeOK
  <2>2. p.token \in Token /\ p.user = p.token.sub /\ p.cuando < p.token.exp
    BY DEF Inv, AtendidaOK
  <2>3. p.token # Nada
    BY <2>2, ExternosAssumption
  <2>4. p.token \in emitidos
    BY <2>3 DEF Inv, ProcedenciaOK
  <2>5. p.token.exp <= eliminadaEn[p.token.sub] + VidaAccess
    BY <2>2, <2>4 DEF Inv, VidasOK
  <2>6. p.token.sub \in Usuarios
    BY <2>4 DEF Inv, TypeOK, Token
  <2> QED
    BY <2>1, <2>2, <2>5, <2>6 DEF Peticion, Token
<1> QED
  BY <1>1, SesionesInv, PTL

=============================================================================
