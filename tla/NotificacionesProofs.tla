---------------------- MODULE NotificacionesProofs -------------------------
(***************************************************************************)
(* Proofs about Notificaciones, for any users, devices, sends, page size   *)
(* and failures.  First part: who gets which push, and what a send leaves  *)
(* in the history.  Second part: paging while notifications arrive.        *)
(***************************************************************************)
EXTENDS Notificaciones, FiniteSetTheorems, SequenceTheorems, WellFoundedInduction, TLAPS

(* The steps of a send with a notification just persisted, and all.        *)
ConAviso == {"leerTokens", "enviar"}
Enviando == {"persistir"} \cup ConAviso
Registrando == {"buscar", "actualizar", "insertar"}

(* A send i has left one row of the history to each recipient so far.      *)
EnvioBien(i, avisos) ==
  /\ i.pedidos # <<>> => i.pc \in Enviando
  /\ i.pc \in Enviando =>
       /\ i.atendidos < Len(i.pedidos)
       /\ Len(i.creados) = IF i.pc \in ConAviso THEN i.atendidos + 1 ELSE i.atendidos
       /\ \A k \in DOMAIN i.creados :
            i.creados[k] \in DOMAIN avisos /\ avisos[i.creados[k]].usuario = i.pedidos[k]

(* The tokens of a send i were read from rows of its recipient, and none   *)
(* of them has got this notification yet.                                  *)
TokensBien(i, filas, mensajes) ==
  /\ i.pc = "enviar" => \A f \in DOMAIN i.tokens :
       f \in DOMAIN filas /\ filas[f] = [usuario |-> Destinatario(i), token |-> i.tokens[f]]
  /\ i.pc \in ConAviso => \A d \in Tokens : mensajes[Last(i.creados)][d] = 0

(* A registration i that is about to insert is the first of its device,    *)
(* unless another one overlapped it.                                       *)
RegistroBien(i, filas, solap) ==
  /\ i.pc \in Registrando => i.usuario \in Usuarios /\ i.token \in Tokens
  /\ i.pc \notin Registrando => i.usuario = Nada
  /\ i.pc = "insertar" /\ <<i.usuario, i.token>> \notin solap =>
       \A f \in DOMAIN filas : ~(filas[f].usuario = i.usuario /\ filas[f].token = i.token)

TareasOK ==
  \A t \in Tareas :
    /\ EnvioBien(tarea[t], historial)
    /\ TokensBien(tarea[t], dispositivo, entregas)
    /\ RegistroBien(tarea[t], dispositivo, solapados)

(* No two sends have the same notification in hand.                        *)
AvisoPropio ==
  \A t, o \in Tareas :
    /\ tarea[t].pc \in ConAviso /\ tarea[o].pc \in ConAviso
    /\ Last(tarea[t].creados) = Last(tarea[o].creados)
    => t = o

RegistroPropio ==
  \A t, o \in Tareas :
    /\ tarea[t].usuario # Nada
    /\ tarea[t].usuario = tarea[o].usuario /\ tarea[t].token = tarea[o].token
    => t = o \/ <<tarea[t].usuario, tarea[t].token>> \in solapados

FilasUnicas ==
  \A f, g \in DOMAIN dispositivo :
    dispositivo[f] = dispositivo[g] =>
      f = g \/ <<dispositivo[f].usuario, dispositivo[f].token>> \in solapados

Inv ==
  /\ TypeOK /\ TareasOK
  /\ AvisoPropio /\ RegistroPropio /\ FilasUnicas
  /\ PushAbreSuAviso /\ UnPushPorDispositivo

-----------------------------------------------------------------------------
LEMMA SinTokensTipo == SinTokens \in TokensPorFila /\ DOMAIN SinTokens = {}
<1>1. SinTokens \in [{} -> Tokens]
  BY DEF SinTokens
<1>2. {} \in SUBSET Filas
  OBVIOUS
<1> QED
  BY <1>1, <1>2 DEF TokensPorFila

LEMMA LibreTipo ==
  /\ Libre \in Tarea /\ Libre.pc = "libre" /\ Libre.usuario = Nada /\ Libre.pedidos = <<>>
  /\ Libre.tokens = SinTokens /\ Libre.creados = <<>>
<1>1. <<>> \in Seq(Usuarios) /\ <<>> \in Seq(Ids)
  OBVIOUS
<1>3. Libre \in Tarea
  BY <1>1, SinTokensTipo DEF Libre, Tarea, Pasos
<1> QED
  BY <1>3 DEF Libre

(* A request that is not of a send nor a registration has nothing to keep. *)
LEMMA LibreBien ==
  ASSUME NEW avisos, NEW filas, NEW mensajes, NEW solap
  PROVE  /\ EnvioBien(Libre, avisos)
         /\ TokensBien(Libre, filas, mensajes)
         /\ RegistroBien(Libre, filas, solap)
  BY LibreTipo DEF EnvioBien, TokensBien, RegistroBien, Enviando, ConAviso, Registrando

(* Rows of the history only gain rows after them and lose their unread     *)
(* mark: what a send left in it stays.                                     *)
Prolonga(avisos, otros) ==
  \A n \in DOMAIN avisos : n \in DOMAIN otros /\ otros[n].usuario = avisos[n].usuario

LEMMA EnvioSigue ==
  ASSUME NEW avisos, NEW otros, Prolonga(avisos, otros), NEW i, EnvioBien(i, avisos)
  PROVE  EnvioBien(i, otros)
  BY DEF Prolonga, EnvioBien

(* The last notification of a send is a row of the history, its            *)
(* recipient's.                                                            *)
LEMMA UltimoCreado ==
  ASSUME NEW i \in Tarea, NEW avisos, EnvioBien(i, avisos), i.pc \in ConAviso
  PROVE  /\ Last(i.creados) \in Ids /\ Last(i.creados) \in DOMAIN avisos
         /\ avisos[Last(i.creados)].usuario = Destinatario(i)
<1>1. i.creados \in Seq(Ids) /\ i.atendidos \in Nat
  BY DEF Tarea
<1>2. Len(i.creados) = i.atendidos + 1
  BY DEF EnvioBien, Enviando
<1>3. Len(i.creados) \in DOMAIN i.creados /\ i.creados[Len(i.creados)] \in Ids
  BY <1>1, <1>2
<1> QED
  BY <1>2, <1>3 DEF EnvioBien, Enviando, Last, Destinatario

LEMMA Inicio == Init => Inv
<1> SUFFICES ASSUME Init PROVE Inv
  OBVIOUS
<1>1. \A t \in Tareas : tarea[t] = Libre
  BY DEF Init
<1>2. TypeOK
  <2>1. lector \in Lector
    BY DEF Init, LectorQuieto, Lector
  <2>2. solapados \subseteq Usuarios \X Tokens
    BY DEF Init, Repetidos
  <2>3. fcmLista \in BOOLEAN
    BY DEF Init, IniciaFirebase
  <2>4. dispositivo \in Seq(FilaToken) /\ Len(dispositivo) <= MaxFilas
    BY NotificacionesAssumption DEF Init
  <2>5. historial \in Seq(FilaAviso) /\ Len(historial) <= MaxAvisos
    BY NotificacionesAssumption DEF Init
  <2>6. entregas \in [Ids -> [Tokens -> Nat]]
    BY DEF Init
  <2>7. tarea \in [Tareas -> Tarea]
    BY LibreTipo DEF Init
  <2> QED
    BY <2>1, <2>2, <2>3, <2>4, <2>5, <2>6, <2>7, NotificacionesAssumption DEF Init, TypeOK
<1>3. TareasOK
  BY <1>1, LibreBien DEF TareasOK
<1>4. AvisoPropio /\ RegistroPropio
  BY <1>1, LibreTipo DEF AvisoPropio, RegistroPropio, ConAviso
<1>5. FilasUnicas
  <2> SUFFICES ASSUME NEW f \in DOMAIN Instalados, NEW g \in DOMAIN Instalados,
                      Instalados[f] = Instalados[g], f # g
               PROVE  <<Instalados[f].usuario, Instalados[f].token>> \in Repetidos
    BY DEF FilasUnicas, Init
  <2>1. Instalados[f] \in FilaToken
    BY NotificacionesAssumption
  <2> QED
    BY <2>1 DEF Repetidos, FilaToken
<1>6. PushAbreSuAviso /\ UnPushPorDispositivo
  BY DEF Init, PushAbreSuAviso, UnPushPorDispositivo
<1> QED
  BY <1>2, <1>3, <1>4, <1>5, <1>6 DEF Inv

-----------------------------------------------------------------------------
(* Request t goes on to j and no table changes.                            *)
LEMMA SoloTarea ==
  ASSUME Inv, NEW t \in Tareas, NEW j \in Tarea,
         tarea' = [tarea EXCEPT ![t] = j],
         UNCHANGED <<fcmLista, dispositivo, historial, entregas, lector>>,
         peticiones' \in 0..MaxPeticiones, fallas' \in 0..MaxFallas,
         solapados \subseteq solapados', solapados' \subseteq Usuarios \X Tokens,
         EnvioBien(j, historial), TokensBien(j, dispositivo, entregas),
         RegistroBien(j, dispositivo, solapados'),
         j.pc \in ConAviso => tarea[t].pc \in ConAviso /\ Last(j.creados) = Last(tarea[t].creados),
         \A o \in Tareas :
           j.usuario # Nada /\ tarea[o].usuario = j.usuario /\ tarea[o].token = j.token =>
             o = t \/ <<j.usuario, j.token>> \in solapados'
  PROVE  Inv'
<1>0. tarea \in [Tareas -> Tarea] /\ TareasOK
  BY DEF Inv, TypeOK
<1>1. tarea'[t] = j /\ \A o \in Tareas \ {t} : tarea'[o] = tarea[o]
  BY <1>0
<1>2. TypeOK'
  BY <1>0 DEF Inv, TypeOK
<1>3. TareasOK'
  <2>1. \A o \in Tareas : RegistroBien(tarea[o], dispositivo, solapados')
    BY <1>0 DEF TareasOK, RegistroBien
  <2> QED
    BY <1>0, <1>1, <2>1 DEF TareasOK
<1>4. AvisoPropio'
  BY <1>1 DEF Inv, AvisoPropio
<1>5. RegistroPropio'
  BY <1>1 DEF Inv, RegistroPropio
<1>6. FilasUnicas' /\ PushAbreSuAviso' /\ UnPushPorDispositivo'
  BY DEF Inv, FilasUnicas, PushAbreSuAviso, UnPushPorDispositivo
<1> QED
  BY <1>2, <1>3, <1>4, <1>5, <1>6 DEF Inv

LEMMA LiberarInv ==
  ASSUME Inv, NEW t \in Tareas, Terminar(t),
         UNCHANGED <<fcmLista, dispositivo, historial, entregas, lector, peticiones, solapados>>,
         fallas' \in 0..MaxFallas
  PROVE  Inv'
<1>1. EnvioBien(Libre, historial) /\ TokensBien(Libre, dispositivo, entregas)
      /\ RegistroBien(Libre, dispositivo, solapados')
  BY LibreBien
<1>2. Libre.pc \notin ConAviso /\ Libre.usuario = Nada /\ Libre \in Tarea
  BY LibreTipo DEF ConAviso
<1>3. tarea' = [tarea EXCEPT ![t] = Libre]
  BY DEF Terminar
<1>4. peticiones' \in 0..MaxPeticiones /\ solapados' \subseteq Usuarios \X Tokens
  BY DEF Inv, TypeOK
<1> QED
  BY <1>1, <1>2, <1>3, <1>4, SoloTarea

LEMMA PedirRegistroInv ==
  ASSUME Inv, NEW t \in Tareas, NEW u \in Usuarios, NEW d \in Tokens, PedirRegistro(t, u, d)
  PROVE  Inv'
<1> DEFINE j == [Libre EXCEPT !.pc = "buscar", !.usuario = u, !.token = d]
<1>1. j \in Tarea /\ j.pc = "buscar" /\ j.usuario = u /\ j.token = d /\ j.pedidos = <<>>
  BY LibreTipo DEF Tarea, Pasos
<1>2. tarea' = [tarea EXCEPT ![t] = j]
  BY DEF PedirRegistro
<1> HIDE DEF j
<1>3. EnvioBien(j, historial) /\ TokensBien(j, dispositivo, entregas)
      /\ RegistroBien(j, dispositivo, solapados')
  BY <1>1 DEF EnvioBien, TokensBien, RegistroBien, Enviando, ConAviso, Registrando
<1>4. peticiones' \in 0..MaxPeticiones /\ fallas' \in 0..MaxFallas
  BY NotificacionesAssumption DEF PedirRegistro, NuevaPeticion, Inv, TypeOK
<1>5. solapados \subseteq solapados' /\ solapados' \subseteq Usuarios \X Tokens
  BY DEF PedirRegistro, Inv, TypeOK
<1>6. \A o \in Tareas : tarea[o].usuario = u /\ tarea[o].token = d => <<u, d>> \in solapados'
  BY DEF PedirRegistro
<1>7. j.pc \notin ConAviso
  BY <1>1 DEF ConAviso
<1>8. UNCHANGED <<fcmLista, dispositivo, historial, entregas, lector>>
  BY DEF PedirRegistro
<1> QED
  BY <1>1, <1>2, <1>3, <1>4, <1>5, <1>6, <1>7, <1>8, SoloTarea

LEMMA BuscarTokenInv ==
  ASSUME Inv, NEW t \in Tareas, BuscarToken(t)
  PROVE  Inv'
<1> DEFINE i == tarea[t]
           existentes == FilasDe(i.usuario, i.token)
           j == [i EXCEPT !.pc = IF existentes = {} THEN "insertar" ELSE "actualizar"]
<1>0. i \in Tarea /\ i.pc = "buscar" /\ EnvioBien(i, historial)
      /\ RegistroBien(i, dispositivo, solapados)
  BY DEF BuscarToken, En, Inv, TypeOK, TareasOK
<1>1. /\ j \in Tarea /\ j.usuario = i.usuario /\ j.token = i.token /\ j.pedidos = i.pedidos
      /\ j.pc \in {"insertar", "actualizar"}
      /\ j.pc = "insertar" => existentes = {}
  BY <1>0 DEF Tarea, Pasos
<1>2. tarea' = [tarea EXCEPT ![t] = j]
  BY DEF BuscarToken, Inv, TypeOK
<1> HIDE DEF j
<1>3. EnvioBien(j, historial)
  BY <1>0, <1>1 DEF EnvioBien, Enviando, ConAviso
<1>4. TokensBien(j, dispositivo, entregas)
  BY <1>1 DEF TokensBien, ConAviso
<1>5. RegistroBien(j, dispositivo, solapados')
  BY <1>0, <1>1 DEF RegistroBien, Registrando, FilasDe, BuscarToken
<1>6. \A o \in Tareas :
        j.usuario # Nada /\ tarea[o].usuario = j.usuario /\ tarea[o].token = j.token =>
          o = t \/ <<j.usuario, j.token>> \in solapados'
  BY <1>1 DEF Inv, RegistroPropio, BuscarToken
<1>7. j.pc \notin ConAviso
  BY <1>1 DEF ConAviso
<1>8. /\ UNCHANGED <<fcmLista, dispositivo, historial, entregas, lector>>
      /\ peticiones' \in 0..MaxPeticiones /\ fallas' \in 0..MaxFallas
      /\ solapados \subseteq solapados' /\ solapados' \subseteq Usuarios \X Tokens
  BY DEF BuscarToken, Inv, TypeOK
<1> QED
  BY <1>1, <1>2, <1>3, <1>4, <1>5, <1>6, <1>7, <1>8, SoloTarea

LEMMA PedirEnvioInv ==
  ASSUME Inv, NEW t \in Tareas, NEW e \in Envios, PedirEnvio(t, e)
  PROVE  Inv'
<1> DEFINE j == [Libre EXCEPT !.pc = "persistir", !.pedidos = e.lista, !.tipo = e.tipo]
<1>0. e.lista \in Seq(Usuarios) /\ e.tipo \in STRING /\ e.lista # <<>>
  BY NotificacionesAssumption DEF PedirEnvio
<1>1. /\ j \in Tarea /\ j.pc = "persistir" /\ j.usuario = Nada /\ j.pedidos = e.lista
      /\ j.creados = <<>> /\ j.atendidos = 0
  BY <1>0, LibreTipo DEF Tarea, Pasos, Libre
<1>2. tarea' = [tarea EXCEPT ![t] = j]
  BY DEF PedirEnvio
<1> HIDE DEF j
<1>3. EnvioBien(j, historial)
  <2>1. Len(e.lista) > 0
    BY <1>0
  <2> QED
    BY <1>1, <2>1 DEF EnvioBien, Enviando, ConAviso
<1>4. TokensBien(j, dispositivo, entregas) /\ RegistroBien(j, dispositivo, solapados)
  BY <1>1 DEF TokensBien, RegistroBien, ConAviso, Registrando
<1>5. peticiones' \in 0..MaxPeticiones /\ fallas' \in 0..MaxFallas
  BY NotificacionesAssumption DEF PedirEnvio, NuevaPeticion, Inv, TypeOK
<1>6. j.pc \notin ConAviso
  BY <1>1 DEF ConAviso
<1>7. /\ UNCHANGED <<fcmLista, dispositivo, historial, entregas, lector, solapados>>
      /\ solapados \subseteq Usuarios \X Tokens
  BY DEF PedirEnvio, Inv, TypeOK
<1> QED
  BY <1>1, <1>2, <1>3, <1>4, <1>5, <1>6, <1>7, SoloTarea

LEMMA PedirDifusionInv ==
  ASSUME Inv, NEW t \in Tareas, PedirDifusion(t)
  PROVE  Inv'
<1> DEFINE j == [Libre EXCEPT !.pc = "destinatarios"]
<1>1. j \in Tarea /\ j.pc = "destinatarios" /\ j.usuario = Nada /\ j.pedidos = <<>>
  BY LibreTipo DEF Tarea, Pasos
<1>2. tarea' = [tarea EXCEPT ![t] = j]
  BY DEF PedirDifusion
<1> HIDE DEF j
<1>3. /\ EnvioBien(j, historial) /\ TokensBien(j, dispositivo, entregas)
      /\ RegistroBien(j, dispositivo, solapados) /\ j.pc \notin ConAviso
  BY <1>1 DEF EnvioBien, TokensBien, RegistroBien, Enviando, ConAviso, Registrando
<1>4. peticiones' \in 0..MaxPeticiones /\ fallas' \in 0..MaxFallas
  BY NotificacionesAssumption DEF PedirDifusion, NuevaPeticion, Inv, TypeOK
<1>5. /\ UNCHANGED <<fcmLista, dispositivo, historial, entregas, lector, solapados>>
      /\ solapados \subseteq Usuarios \X Tokens
  BY DEF PedirDifusion, Inv, TypeOK
<1> QED
  BY <1>1, <1>2, <1>3, <1>4, <1>5, SoloTarea

(* The rows of a user, and their tokens as the send takes them.            *)
LEMMA TokensDeTipo ==
  ASSUME Inv, NEW u \in Usuarios
  PROVE  /\ TokensDe(u) \in TokensPorFila
         /\ \A f \in DOMAIN TokensDe(u) :
              /\ f \in DOMAIN dispositivo
              /\ dispositivo[f] = [usuario |-> u, token |-> TokensDe(u)[f]]
<1> DEFINE filas == {g \in DOMAIN dispositivo : dispositivo[g].usuario = u}
<1>1. \A g \in DOMAIN dispositivo : g \in Filas /\ dispositivo[g] \in FilaToken
  <2>1. dispositivo \in Seq(FilaToken) /\ Len(dispositivo) <= MaxFilas /\ MaxFilas \in Nat
    BY NotificacionesAssumption DEF Inv, TypeOK
  <2> QED
    BY <2>1 DEF Filas
<1>2. filas \in SUBSET Filas
  BY <1>1
<1>3. TokensDe(u) \in [filas -> Tokens]
  BY <1>1 DEF TokensDe, FilaToken
<1>4. ASSUME NEW f \in filas PROVE dispositivo[f] = [usuario |-> u, token |-> TokensDe(u)[f]]
  BY <1>1 DEF TokensDe, FilaToken
<1>5. TokensDe(u) \in TokensPorFila
  BY <1>2, <1>3 DEF TokensPorFila
<1> QED
  BY <1>3, <1>4, <1>5

(* The next turn of the loop, or its end.                                  *)
LEMMA SiguienteBien ==
  ASSUME NEW i \in Tarea, NEW avisos, NEW filas, NEW mensajes, NEW solap,
         EnvioBien(i, avisos), RegistroBien(i, filas, solap), i.pc \in ConAviso
  PROVE  /\ Siguiente(i) \in Tarea /\ EnvioBien(Siguiente(i), avisos)
         /\ TokensBien(Siguiente(i), filas, mensajes)
         /\ RegistroBien(Siguiente(i), filas, solap)
         /\ Siguiente(i).pc \notin ConAviso /\ Siguiente(i).usuario = Nada
<1>1. CASE i.atendidos + 1 = Len(i.pedidos)
  BY <1>1, LibreTipo, LibreBien DEF Siguiente, ConAviso
<1>2. CASE i.atendidos + 1 # Len(i.pedidos)
  <2> DEFINE j == [i EXCEPT !.pc = "persistir", !.atendidos = @ + 1]
  <2>1. i.atendidos \in Nat /\ i.pedidos \in Seq(Usuarios) /\ i.creados \in Seq(Ids)
    BY DEF Tarea
  <2>2. /\ j \in Tarea /\ j.pc = "persistir" /\ j.usuario = i.usuario
        /\ j.pedidos = i.pedidos /\ j.creados = i.creados /\ j.atendidos = i.atendidos + 1
    <3>1. i.atendidos + 1 \in Nat
      BY <2>1
    <3> QED
      BY <3>1 DEF Tarea, Pasos
  <2>3. i.usuario = Nada
    BY DEF RegistroBien, Registrando, ConAviso
  <2>4. Siguiente(i) = j
    BY <1>2 DEF Siguiente
  <2> HIDE DEF j
  <2>5. EnvioBien(j, avisos)
    BY <1>2, <2>1, <2>2 DEF EnvioBien, Enviando, ConAviso
  <2> QED
    BY <2>2, <2>3, <2>4, <2>5 DEF TokensBien, RegistroBien, ConAviso, Registrando
<1> QED
  BY <1>1, <1>2

LEMMA DestinatarioTipo ==
  ASSUME NEW i \in Tarea, NEW avisos, EnvioBien(i, avisos), i.pc \in Enviando
  PROVE  Destinatario(i) \in Usuarios
<1>1. i.atendidos \in Nat /\ i.pedidos \in Seq(Usuarios) /\ i.atendidos < Len(i.pedidos)
  BY DEF Tarea, EnvioBien
<1>2. i.atendidos + 1 \in 1..Len(i.pedidos)
  BY <1>1
<1> QED
  BY <1>1, <1>2 DEF Destinatario

LEMMA LeerTokensInv ==
  ASSUME Inv, NEW t \in Tareas, LeerTokens(t)
  PROVE  Inv'
<1> DEFINE i == tarea[t]
           fcmTokens == TokensDe(Destinatario(i))
           j == IF DOMAIN fcmTokens = {} THEN Siguiente(i)
                ELSE [i EXCEPT !.pc = "enviar", !.tokens = fcmTokens]
<1>0. /\ i \in Tarea /\ i.pc = "leerTokens" /\ EnvioBien(i, historial)
      /\ TokensBien(i, dispositivo, entregas) /\ RegistroBien(i, dispositivo, solapados)
  BY DEF LeerTokens, En, Inv, TypeOK, TareasOK
<1>1. tarea' = [tarea EXCEPT ![t] = j]
  BY DEF LeerTokens
<1>2. /\ UNCHANGED <<fcmLista, dispositivo, historial, entregas, lector>> /\ solapados' = solapados
      /\ peticiones' \in 0..MaxPeticiones /\ fallas' \in 0..MaxFallas
      /\ solapados' \subseteq Usuarios \X Tokens
  BY DEF LeerTokens, Inv, TypeOK
<1>3. /\ j \in Tarea /\ j.usuario = Nada /\ EnvioBien(j, historial)
      /\ TokensBien(j, dispositivo, entregas) /\ RegistroBien(j, dispositivo, solapados)
      /\ j.pc \in ConAviso => Last(j.creados) = Last(i.creados)
  <2>1. CASE DOMAIN fcmTokens = {}
    BY <1>0, <2>1, SiguienteBien DEF ConAviso
  <2>2. CASE DOMAIN fcmTokens # {}
    <3> DEFINE k == [i EXCEPT !.pc = "enviar", !.tokens = fcmTokens]
    <3>1. Destinatario(i) \in Usuarios
      BY <1>0, DestinatarioTipo DEF Enviando, ConAviso
    <3>2. /\ fcmTokens \in TokensPorFila
          /\ \A f \in DOMAIN fcmTokens :
               /\ f \in DOMAIN dispositivo
               /\ dispositivo[f] = [usuario |-> Destinatario(i), token |-> fcmTokens[f]]
      BY <3>1, TokensDeTipo
    <3> HIDE DEF fcmTokens
    <3>3. /\ k \in Tarea /\ k.pc = "enviar" /\ k.usuario = i.usuario /\ k.token = i.token
          /\ k.pedidos = i.pedidos /\ k.creados = i.creados /\ k.atendidos = i.atendidos
          /\ k.tokens = fcmTokens
      BY <1>0, <3>2 DEF Tarea, Pasos
    <3>4. k = j
      BY <2>2
    <3> HIDE DEF k, j
    <3>5. EnvioBien(k, historial)
      BY <1>0, <3>3 DEF EnvioBien, Enviando, ConAviso
    <3>6. TokensBien(k, dispositivo, entregas)
      BY <1>0, <3>2, <3>3 DEF TokensBien, ConAviso, Destinatario
    <3>7. RegistroBien(k, dispositivo, solapados) /\ k.usuario = Nada
      BY <1>0, <3>3 DEF RegistroBien, Registrando
    <3> QED
      BY <3>3, <3>4, <3>5, <3>6, <3>7
  <2> QED
    BY <2>1, <2>2
<1> HIDE DEF j
<1>4. i.pc \in ConAviso
  BY <1>0 DEF ConAviso
<1> QED
  BY <1>1, <1>2, <1>3, <1>4, SoloTarea

LEMMA PersistirInv ==
  ASSUME Inv, NEW t \in Tareas, Persistir(t)
  PROVE  Inv'
<1> DEFINE i == tarea[t]
           id == Len(historial) + 1
           e == [usuario |-> Destinatario(i), tipo |-> TipoDe(i.tipo), leido |-> FALSE]
           j == [i EXCEPT !.pc = "leerTokens", !.creados = Append(@, id)]
<1>0. /\ i \in Tarea /\ i.pc = "persistir" /\ EnvioBien(i, historial)
      /\ RegistroBien(i, dispositivo, solapados)
      /\ historial \in Seq(FilaAviso) /\ Len(historial) < MaxAvisos
      /\ historial' = Append(historial, e)
      /\ dispositivo' = dispositivo /\ entregas' = entregas /\ solapados' = solapados
  BY DEF Persistir, En, Inv, TypeOK, TareasOK
<1>1. id \in Ids /\ id \in Nat
  BY <1>0, NotificacionesAssumption DEF Ids
<1>2. i.creados \in Seq(Ids) /\ i.atendidos \in Nat /\ i.pedidos \in Seq(Usuarios)
  BY <1>0 DEF Tarea
<1>3. Append(i.creados, id) \in Seq(Ids)
  BY <1>1, <1>2
<1>4. /\ j \in Tarea /\ j.pc = "leerTokens" /\ j.usuario = i.usuario /\ j.token = i.token
      /\ j.pedidos = i.pedidos /\ j.creados = Append(i.creados, id) /\ j.atendidos = i.atendidos
  BY <1>0, <1>3 DEF Tarea, Pasos
<1>5. tarea' = [tarea EXCEPT ![t] = j]
  BY DEF Persistir, Inv, TypeOK
<1>6. e \in FilaAviso
  <2>1. Destinatario(i) \in Usuarios
    BY <1>0, DestinatarioTipo DEF Enviando
  <2>2. TipoDe(i.tipo) \in TipoNotificacionEnum
    BY DEF TipoDe, TipoNotificacionEnum
  <2> QED
    BY <2>1, <2>2 DEF FilaAviso
<1>7. /\ historial' \in Seq(FilaAviso) /\ Len(historial') = id /\ historial'[id] = e
      /\ \A n \in DOMAIN historial : n \in DOMAIN historial' /\ historial'[n] = historial[n]
      /\ DOMAIN historial' = DOMAIN historial \cup {id} /\ id \notin DOMAIN historial
  BY <1>0, <1>6, AppendProperties
<1>8. Prolonga(historial, historial')
  BY <1>7 DEF Prolonga
<1>9. tarea'[t] = j /\ \A o \in Tareas \ {t} : tarea'[o] = tarea[o]
  BY <1>5 DEF Inv, TypeOK
<1> HIDE DEF j, e, id
<1>10. \A d \in Tokens : entregas[id][d] = 0
  <2>1. \A d \in Tokens : entregas[id][d] \in Nat /\ ~(entregas[id][d] > 0)
    BY <1>1, <1>7 DEF Inv, TypeOK, PushAbreSuAviso
  <2> QED
    BY <2>1
<1>11. Last(j.creados) = id /\ Len(j.creados) = Len(i.creados) + 1
  BY <1>1, <1>2, <1>4, AppendProperties DEF Last
<1>12. EnvioBien(j, historial')
  <2>1. Len(i.creados) = i.atendidos /\ i.atendidos < Len(i.pedidos)
    BY <1>0 DEF EnvioBien, Enviando, ConAviso
  <2>2. ASSUME NEW k \in DOMAIN j.creados
        PROVE  j.creados[k] \in DOMAIN historial' /\ historial'[j.creados[k]].usuario = j.pedidos[k]
    <3>1. CASE k = Len(i.creados) + 1
      <4>1. j.creados[k] = id
        BY <1>1, <1>2, <1>4, <3>1, AppendProperties
      <4>2. e.usuario = i.pedidos[k]
        BY <2>1, <3>1 DEF Destinatario, e
      <4> QED
        BY <1>4, <1>7, <4>1, <4>2
    <3>2. CASE k # Len(i.creados) + 1
      <4>1. k \in DOMAIN i.creados /\ j.creados[k] = i.creados[k]
        BY <1>1, <1>2, <1>4, <3>2, AppendProperties
      <4>2. i.creados[k] \in DOMAIN historial /\ historial[i.creados[k]].usuario = i.pedidos[k]
        BY <1>0, <4>1 DEF EnvioBien, Enviando
      <4> QED
        BY <1>4, <1>7, <4>1, <4>2
    <3> QED
      BY <3>1, <3>2
  <2> QED
    BY <1>4, <1>11, <2>1, <2>2 DEF EnvioBien, Enviando, ConAviso
<1>13. TypeOK'
  <2>1. tarea' \in [Tareas -> Tarea]
    BY <1>4, <1>5 DEF Inv, TypeOK
  <2>2. Len(historial') <= MaxAvisos
    BY <1>1, <1>7 DEF Ids
  <2> QED
    BY <1>7, <2>1, <2>2 DEF Persistir, Inv, TypeOK
<1>14. TareasOK'
  <2> SUFFICES ASSUME NEW o \in Tareas
               PROVE  /\ EnvioBien(tarea'[o], historial')
                      /\ TokensBien(tarea'[o], dispositivo, entregas)
                      /\ RegistroBien(tarea'[o], dispositivo, solapados)
    BY <1>0 DEF TareasOK
  <2>1. CASE o = t
    <3>1. TokensBien(j, dispositivo, entregas)
      BY <1>4, <1>10, <1>11 DEF TokensBien
    <3>2. RegistroBien(j, dispositivo, solapados)
      BY <1>0, <1>4 DEF RegistroBien, Registrando
    <3> QED
      BY <1>9, <1>12, <2>1, <3>1, <3>2
  <2>2. CASE o # t
    BY <1>8, <1>9, <2>2, EnvioSigue DEF Inv, TareasOK
  <2> QED
    BY <2>1, <2>2
<1>15. AvisoPropio'
  <2>1. ASSUME NEW o \in Tareas, tarea[o].pc \in ConAviso PROVE Last(tarea[o].creados) # id
    <3>1. tarea[o] \in Tarea /\ EnvioBien(tarea[o], historial)
      BY DEF Inv, TypeOK, TareasOK
    <3> QED
      BY <1>7, <2>1, <3>1, UltimoCreado
  <2> QED
    BY <1>9, <1>11, <2>1 DEF Inv, AvisoPropio
<1>16. RegistroPropio'
  <2>1. \A o \in Tareas : tarea'[o].usuario = tarea[o].usuario /\ tarea'[o].token = tarea[o].token
    BY <1>4, <1>9
  <2>2. RegistroPropio
    BY DEF Inv
  <2> QED
    BY <1>0, <2>1, <2>2 DEF RegistroPropio
<1>17. FilasUnicas'
  BY <1>0 DEF Inv, FilasUnicas
<1>18. PushAbreSuAviso'
  BY <1>0, <1>7 DEF Inv, PushAbreSuAviso
<1>19. UnPushPorDispositivo'
  BY <1>0, <1>7, <1>10 DEF Inv, UnPushPorDispositivo
<1> QED
  BY <1>13, <1>14, <1>15, <1>16, <1>17, <1>18, <1>19 DEF Inv

LEMMA InsertarTokenInv ==
  ASSUME Inv, NEW t \in Tareas, InsertarToken(t)
  PROVE  Inv'
<1> DEFINE i == tarea[t]
           f0 == Len(dispositivo) + 1
           e == [usuario |-> i.usuario, token |-> i.token]
<1>0. /\ i \in Tarea /\ i.pc = "insertar" /\ RegistroBien(i, dispositivo, solapados)
      /\ dispositivo \in Seq(FilaToken) /\ Len(dispositivo) < MaxFilas
      /\ dispositivo' = Append(dispositivo, e)
      /\ tarea' = [tarea EXCEPT ![t] = Libre]
      /\ historial' = historial /\ entregas' = entregas /\ solapados' = solapados
  BY DEF InsertarToken, En, Terminar, Inv, TypeOK, TareasOK
<1>1. i.usuario \in Usuarios /\ i.token \in Tokens /\ e \in FilaToken
  BY <1>0 DEF RegistroBien, Registrando, FilaToken
<1>2. /\ dispositivo' \in Seq(FilaToken) /\ Len(dispositivo') = f0 /\ dispositivo'[f0] = e
      /\ \A f \in DOMAIN dispositivo : f \in DOMAIN dispositivo' /\ dispositivo'[f] = dispositivo[f]
      /\ DOMAIN dispositivo' = DOMAIN dispositivo \cup {f0}
  BY <1>0, <1>1, AppendProperties
<1>3. tarea'[t] = Libre /\ \A o \in Tareas \ {t} : tarea'[o] = tarea[o]
  BY <1>0 DEF Inv, TypeOK
<1>4. e.usuario = i.usuario /\ e.token = i.token
  OBVIOUS
<1>5. f0 <= MaxFilas
  BY <1>0, NotificacionesAssumption
<1> HIDE DEF e, f0
<1>6. TypeOK'
  <2>1. tarea' \in [Tareas -> Tarea]
    BY <1>0, LibreTipo DEF Inv, TypeOK
  <2> QED
    BY <1>2, <1>5, <2>1 DEF InsertarToken, Inv, TypeOK
<1>7. TareasOK'
  <2> SUFFICES ASSUME NEW o \in Tareas
               PROVE  /\ EnvioBien(tarea'[o], historial)
                      /\ TokensBien(tarea'[o], dispositivo', entregas)
                      /\ RegistroBien(tarea'[o], dispositivo', solapados)
    BY <1>0 DEF TareasOK
  <2>1. CASE o = t
    BY <1>3, <2>1, LibreBien
  <2>2. CASE o # t
    <3>1. /\ tarea'[o] = tarea[o] /\ EnvioBien(tarea[o], historial)
          /\ TokensBien(tarea[o], dispositivo, entregas)
          /\ RegistroBien(tarea[o], dispositivo, solapados)
      BY <1>3, <2>2 DEF Inv, TareasOK
    <3>2. TokensBien(tarea[o], dispositivo', entregas)
      BY <1>2, <3>1 DEF TokensBien
    <3>3. tarea[o].usuario = i.usuario /\ tarea[o].token = i.token =>
            <<i.usuario, i.token>> \in solapados
      BY <1>1, <2>2, NotificacionesAssumption DEF Inv, RegistroPropio
    <3>4. RegistroBien(tarea[o], dispositivo', solapados)
      BY <1>2, <1>4, <3>1, <3>3 DEF RegistroBien
    <3> QED
      BY <3>1, <3>2, <3>4
  <2> QED
    BY <2>1, <2>2
<1>8. AvisoPropio' /\ RegistroPropio'
  BY <1>0, <1>3, LibreTipo DEF Inv, AvisoPropio, RegistroPropio, ConAviso
<1>9. FilasUnicas'
  <2>1. \A f \in DOMAIN dispositivo :
          dispositivo[f] = e => <<i.usuario, i.token>> \in solapados
    BY <1>0, <1>4 DEF RegistroBien
  <2> QED
    BY <1>0, <1>2, <1>4, <2>1 DEF Inv, FilasUnicas
<1>10. PushAbreSuAviso'
  <2> SUFFICES ASSUME NEW n \in Ids, NEW d \in Tokens, entregas[n][d] > 0
               PROVE  /\ n \in DOMAIN historial
                      /\ \E f \in DOMAIN dispositivo' :
                           dispositivo'[f].usuario = historial[n].usuario /\ dispositivo'[f].token = d
    BY <1>0 DEF PushAbreSuAviso
  <2>1. PICK f \in DOMAIN dispositivo :
          dispositivo[f].usuario = historial[n].usuario /\ dispositivo[f].token = d
    BY DEF Inv, PushAbreSuAviso
  <2> QED
    BY <1>2, <2>1 DEF Inv, PushAbreSuAviso
<1>11. UnPushPorDispositivo'
  BY <1>0 DEF Inv, UnPushPorDispositivo
<1> QED
  BY <1>6, <1>7, <1>8, <1>9, <1>10, <1>11 DEF Inv

(* A set of tokens of one user holds a device twice only if two rows of it *)
(* are the same.                                                           *)
LEMMA UnoOVarios ==
  ASSUME NEW S, IsFiniteSet(S), Cardinality(S) > 1
  PROVE  \E f, g \in S : f # g
<1> SUFFICES ASSUME \A f, g \in S : f = g PROVE FALSE
  OBVIOUS
<1>1. S # {}
  BY FS_EmptySet
<1>2. PICK f \in S : TRUE
  BY <1>1
<1>3. S = {f}
  BY <1>2
<1> QED
  BY <1>3, FS_Singleton

LEMMA EnviarInv ==
  ASSUME Inv, NEW t \in Tareas, Enviar(t)
  PROVE  Inv'
<1> DEFINE i == tarea[t]
           id == Last(i.creados)
           u == Destinatario(i)
           j == Siguiente(i)
<1>0. /\ i \in Tarea /\ i.pc = "enviar" /\ i.pc \in ConAviso /\ EnvioBien(i, historial)
      /\ TokensBien(i, dispositivo, entregas) /\ RegistroBien(i, dispositivo, solapados)
      /\ entregas \in [Ids -> [Tokens -> Nat]]
      /\ dispositivo' = dispositivo /\ historial' = historial /\ solapados' = solapados
      /\ tarea' = [tarea EXCEPT ![t] = j]
  BY DEF Enviar, En, Inv, TypeOK, TareasOK, ConAviso
<1>1. id \in Ids /\ id \in DOMAIN historial /\ historial[id].usuario = u
  BY <1>0, UltimoCreado
<1>2. /\ j \in Tarea /\ EnvioBien(j, historial) /\ RegistroBien(j, dispositivo, solapados)
      /\ j.pc \notin ConAviso /\ j.usuario = Nada
  BY <1>0, SiguienteBien
<1>3. tarea'[t] = j /\ \A o \in Tareas \ {t} : tarea'[o] = tarea[o]
  BY <1>0 DEF Inv, TypeOK
<1>4. PICK aceptados \in Aceptables(i.tokens) :
        entregas' = [entregas EXCEPT ![id] =
          [d \in Tokens |-> @[d] + Cardinality({k \in aceptados : i.tokens[k] = d})]]
  BY DEF Enviar
<1>5. aceptados \subseteq DOMAIN i.tokens /\ DOMAIN i.tokens \subseteq Filas
  BY <1>0 DEF Aceptables, Tarea, TokensPorFila
<1> DEFINE Veces(d) == {k \in aceptados : i.tokens[k] = d}
<1>6. \A d \in Tokens : IsFiniteSet(Veces(d)) /\ Cardinality(Veces(d)) \in Nat
  <2>1. IsFiniteSet(Filas)
    BY FS_Interval, NotificacionesAssumption DEF Filas
  <2>2. ASSUME NEW d \in Tokens PROVE Veces(d) \in SUBSET Filas
    BY <1>5
  <2> QED
    BY <2>1, <2>2, FS_Subset, FS_CardinalityType
<1>7. \A d \in Tokens : entregas[id][d] = 0
  BY <1>0 DEF TokensBien
<1>8. /\ \A n \in Ids \ {id} : entregas'[n] = entregas[n]
      /\ \A d \in Tokens : entregas'[id][d] = Cardinality(Veces(d))
      /\ entregas' \in [Ids -> [Tokens -> Nat]]
  <2>1. \A n \in Ids \ {id} : entregas'[n] = entregas[n]
    BY <1>0, <1>1, <1>4
  <2>2. entregas'[id] = [d \in Tokens |-> entregas[id][d] + Cardinality(Veces(d))]
    BY <1>0, <1>1, <1>4
  <2>3. ASSUME NEW d \in Tokens PROVE entregas'[id][d] = Cardinality(Veces(d))
    BY <1>6, <1>7, <2>2
  <2>4. entregas'[id] \in [Tokens -> Nat]
    BY <1>6, <2>2, <2>3
  <2>5. DOMAIN entregas' = Ids
    BY <1>0, <1>4
  <2>6. entregas' = [n \in Ids |-> entregas'[n]]
    BY <1>0, <1>4
  <2> QED
    BY <1>0, <2>1, <2>3, <2>4, <2>6
<1> HIDE DEF j, id, Veces
<1>9. TypeOK'
  <2>1. tarea' \in [Tareas -> Tarea]
    BY <1>0, <1>2 DEF Inv, TypeOK
  <2> QED
    BY <1>8, <2>1 DEF Enviar, Inv, TypeOK
<1>10. \A o \in Tareas \ {t} : tarea[o].pc \in ConAviso => Last(tarea[o].creados) # id
  BY <1>0 DEF Inv, AvisoPropio, id
<1>11. TareasOK'
  <2> SUFFICES ASSUME NEW o \in Tareas
               PROVE  /\ EnvioBien(tarea'[o], historial)
                      /\ TokensBien(tarea'[o], dispositivo, entregas')
                      /\ RegistroBien(tarea'[o], dispositivo, solapados)
    BY <1>0 DEF TareasOK
  <2>1. CASE o = t
    <3>1. TokensBien(j, dispositivo, entregas')
      BY <1>2 DEF TokensBien, ConAviso
    <3> QED
      BY <1>2, <1>3, <2>1, <3>1
  <2>2. CASE o # t
    <3>1. /\ tarea'[o] = tarea[o] /\ tarea[o] \in Tarea /\ EnvioBien(tarea[o], historial)
          /\ TokensBien(tarea[o], dispositivo, entregas)
          /\ RegistroBien(tarea[o], dispositivo, solapados)
      BY <1>3, <2>2 DEF Inv, TypeOK, TareasOK
    <3>2. tarea[o].pc \in ConAviso => Last(tarea[o].creados) \in Ids \ {id}
      BY <1>10, <2>2, <3>1, UltimoCreado
    <3>3. TokensBien(tarea[o], dispositivo, entregas')
      BY <1>8, <3>1, <3>2 DEF TokensBien
    <3> QED
      BY <3>1, <3>3
  <2> QED
    BY <2>1, <2>2
<1>12. AvisoPropio' /\ RegistroPropio'
  BY <1>0, <1>2, <1>3 DEF Inv, AvisoPropio, RegistroPropio
<1>13. FilasUnicas'
  BY <1>0 DEF Inv, FilasUnicas
<1>14. \A k \in aceptados :
         /\ k \in DOMAIN dispositivo /\ dispositivo[k] = [usuario |-> u, token |-> i.tokens[k]]
         /\ dispositivo[k].usuario = u /\ dispositivo[k].token = i.tokens[k]
  BY <1>0, <1>5 DEF TokensBien
<1>15. PushAbreSuAviso'
  <2> SUFFICES ASSUME NEW n \in Ids, NEW d \in Tokens, entregas'[n][d] > 0
               PROVE  /\ n \in DOMAIN historial
                      /\ \E f \in DOMAIN dispositivo :
                           dispositivo[f].usuario = historial[n].usuario /\ dispositivo[f].token = d
    BY <1>0 DEF PushAbreSuAviso
  <2>1. CASE n = id
    <3>1. Cardinality(Veces(d)) > 0
      BY <1>8, <2>1
    <3>2. Veces(d) # {}
      BY <3>1, FS_EmptySet
    <3>3. PICK k \in aceptados : i.tokens[k] = d
      BY <3>2 DEF Veces
    <3>4. dispositivo[k].usuario = u /\ dispositivo[k].token = d
      BY <1>14, <3>3
    <3> QED
      BY <1>1, <1>14, <2>1, <3>4
  <2>2. CASE n # id
    BY <1>8, <2>2 DEF Inv, PushAbreSuAviso
  <2> QED
    BY <2>1, <2>2
<1>16. UnPushPorDispositivo'
  <2> SUFFICES ASSUME NEW n \in DOMAIN historial, NEW d \in Tokens, entregas'[n][d] > 1
               PROVE  <<historial[n].usuario, d>> \in solapados
    BY <1>0 DEF UnPushPorDispositivo
  <2>1. CASE n = id
    <3>1. Cardinality(Veces(d)) > 1
      BY <1>8, <2>1
    <3>2. PICK f \in Veces(d), g \in Veces(d) : f # g
      BY <1>6, <3>1, UnoOVarios
    <3>3. f \in aceptados /\ g \in aceptados /\ i.tokens[f] = d /\ i.tokens[g] = d
      BY <3>2 DEF Veces
    <3>4. /\ f \in DOMAIN dispositivo /\ g \in DOMAIN dispositivo /\ dispositivo[f] = dispositivo[g]
          /\ dispositivo[f].usuario = u /\ dispositivo[f].token = d
      BY <1>14, <3>3
    <3> QED
      BY <1>1, <2>1, <3>2, <3>4 DEF Inv, FilasUnicas
  <2>2. CASE n # id
    <3>1. n \in Ids
      <4>1. historial \in Seq(FilaAviso) /\ Len(historial) <= MaxAvisos /\ MaxAvisos \in Nat
        BY NotificacionesAssumption DEF Inv, TypeOK
      <4> QED
        BY <4>1 DEF Ids
    <3> QED
      BY <1>8, <2>2, <3>1 DEF Inv, UnPushPorDispositivo
  <2> QED
    BY <2>1, <2>2
<1> QED
  BY <1>9, <1>11, <1>12, <1>13, <1>15, <1>16 DEF Inv

LEMMA MarkAsReadInv ==
  ASSUME Inv, NEW u \in Usuarios, NEW n \in DOMAIN historial, MarkAsRead(u, n)
  PROVE  Inv'
<1>0. /\ historial \in Seq(FilaAviso)
      /\ historial' = [historial EXCEPT ![n] = [@ EXCEPT !.leido = TRUE]]
      /\ UNCHANGED <<fcmLista, dispositivo, entregas, tarea, peticiones, fallas, solapados>>
  BY DEF MarkAsRead, Inv, TypeOK
<1>1. [historial[n] EXCEPT !.leido = TRUE] \in FilaAviso
  <2>1. historial[n] \in FilaAviso
    BY <1>0
  <2> QED
    BY <2>1 DEF FilaAviso
<1>2. /\ historial' \in Seq(FilaAviso) /\ Len(historial') = Len(historial)
      /\ DOMAIN historial' = DOMAIN historial
  <2> DEFINE e == [historial[n] EXCEPT !.leido = TRUE]
  <2>1. n \in 1..Len(historial) /\ e \in FilaAviso
    BY <1>0, <1>1
  <2>2. historial' = [historial EXCEPT ![n] = e]
    BY <1>0
  <2> HIDE DEF e
  <2>3. /\ [historial EXCEPT ![n] = e] \in Seq(FilaAviso)
        /\ Len([historial EXCEPT ![n] = e]) = Len(historial)
    BY <1>0, <2>1, ExceptSeq
  <2>4. historial' \in Seq(FilaAviso) /\ Len(historial') = Len(historial)
    BY <2>2, <2>3
  <2> QED
    BY <1>0, <2>4
<1>3. \A m \in DOMAIN historial : historial'[m].usuario = historial[m].usuario
  BY <1>0
<1>4. lector' \in Lector
  BY DEF MarkAsRead, Inv, TypeOK, Lector
<1>5. TypeOK'
  BY <1>0, <1>2, <1>4 DEF Inv, TypeOK
<1>6. Prolonga(historial, historial')
  BY <1>2, <1>3 DEF Prolonga
<1>7. TareasOK'
  BY <1>0, <1>6, EnvioSigue DEF Inv, TareasOK
<1>8. AvisoPropio' /\ RegistroPropio' /\ FilasUnicas'
  BY <1>0 DEF Inv, AvisoPropio, RegistroPropio, FilasUnicas
<1>9. PushAbreSuAviso' /\ UnPushPorDispositivo'
  BY <1>0, <1>2, <1>3 DEF Inv, PushAbreSuAviso, UnPushPorDispositivo
<1> QED
  BY <1>5, <1>7, <1>8, <1>9 DEF Inv

LEMMA SinCambios ==
  ASSUME Inv, lector' \in Lector,
         UNCHANGED <<fcmLista, dispositivo, historial, entregas, tarea, peticiones, fallas, solapados>>
  PROVE  Inv'
  BY DEF Inv, TypeOK, TareasOK, AvisoPropio, RegistroPropio, FilasUnicas, PushAbreSuAviso,
         UnPushPorDispositivo

LEMMA CaidaInv == Inv /\ Caida => Inv'
<1> SUFFICES ASSUME Inv, Caida PROVE Inv'
  OBVIOUS
<1>1. /\ UNCHANGED <<fcmLista, dispositivo, historial, entregas, lector, peticiones, solapados>>
      /\ \A t \in Tareas : tarea'[t] = Libre
      /\ tarea' \in [Tareas -> Tarea]
      /\ fallas' \in 0..MaxFallas
  BY LibreTipo, NotificacionesAssumption DEF Caida, Inv, TypeOK
<1>2. TypeOK'
  BY <1>1 DEF Inv, TypeOK
<1>3. TareasOK'
  BY <1>1, LibreBien DEF TareasOK
<1>4. AvisoPropio' /\ RegistroPropio'
  BY <1>1, LibreTipo DEF AvisoPropio, RegistroPropio, ConAviso
<1>5. FilasUnicas' /\ PushAbreSuAviso' /\ UnPushPorDispositivo'
  BY <1>1 DEF Inv, FilasUnicas, PushAbreSuAviso, UnPushPorDispositivo
<1> QED
  BY <1>2, <1>3, <1>4, <1>5 DEF Inv

LEMMA AvanzarInv ==
  ASSUME Inv, NEW t \in Tareas, Avanzar(t)
  PROVE  Inv'
<1>1. ASSUME ActualizarToken(t) \/ LeerDestinatarios(t) PROVE Inv'
  <2>1. /\ Terminar(t)
        /\ UNCHANGED <<fcmLista, dispositivo, historial, entregas, lector, peticiones, solapados>>
        /\ fallas' \in 0..MaxFallas
    BY <1>1 DEF ActualizarToken, LeerDestinatarios, Inv, TypeOK
  <2> QED
    BY <2>1, LiberarInv
<1> QED
  BY <1>1, BuscarTokenInv, InsertarTokenInv, PersistirInv, LeerTokensInv, EnviarInv DEF Avanzar

LEMMA Paso == Inv /\ [Next]_vars => Inv'
<1> SUFFICES ASSUME Inv, [Next]_vars PROVE Inv'
  OBVIOUS
<1>1. ASSUME NEW t \in Tareas, Pedir(t) PROVE Inv'
  <2>1. ASSUME NEW r \in Registros, PedirRegistro(t, r[1], r[2]) PROVE Inv'
    <3>1. r[1] \in Usuarios /\ r[2] \in Tokens
      BY NotificacionesAssumption
    <3> QED
      BY <2>1, <3>1, PedirRegistroInv
  <2> QED
    BY <1>1, <2>1, PedirEnvioInv, PedirDifusionInv DEF Pedir
<1>2. ASSUME NEW t \in Tareas, Falla(t) PROVE Inv'
  <2>1. /\ Terminar(t)
        /\ UNCHANGED <<fcmLista, dispositivo, historial, entregas, lector, peticiones, solapados>>
        /\ fallas' \in 0..MaxFallas
    BY <1>2, NotificacionesAssumption DEF Falla, Inv, TypeOK
  <2> QED
    BY <2>1, LiberarInv
<1>3. ASSUME NEW u \in Lectores, EmpezarLectura(u) PROVE Inv'
  <2>1. NoLeidas(u) \subseteq Ids /\ u \in Usuarios
    <3>1. historial \in Seq(FilaAviso) /\ Len(historial) <= MaxAvisos /\ MaxAvisos \in Nat
      BY NotificacionesAssumption DEF Inv, TypeOK
    <3> QED
      BY <3>1, NotificacionesAssumption DEF Ids, NoLeidas
  <2>2. lector' \in Lector
    BY <1>3, <2>1 DEF EmpezarLectura, Lector
  <2> QED
    BY <1>3, <2>2, SinCambios DEF EmpezarLectura
<1>4. ASSUME NEW u \in Lectores, NEW n \in DOMAIN historial, MarkAsRead(u, n) PROVE Inv'
  BY <1>4, MarkAsReadInv, NotificacionesAssumption
<1>5. ASSUME LeerPagina PROVE Inv'
  <2>1. Pagina(lector.usuario, lector.pagina) \subseteq Ids
    <3>1. historial \in Seq(FilaAviso) /\ Len(historial) <= MaxAvisos /\ MaxAvisos \in Nat
      BY NotificacionesAssumption DEF Inv, TypeOK
    <3> QED
      BY <3>1 DEF Ids, Pagina, NoLeidas
  <2>2. LectorQuieto \in Lector
    BY DEF LectorQuieto, Lector
  <2>3. lector \in Lector
    BY DEF Inv, TypeOK
  <2>4. [lector EXCEPT !.pagina = @ + 1, !.vistos = @ \cup Pagina(lector.usuario, lector.pagina)] \in Lector
    <3>1. lector.pagina + 1 \in Nat
      BY <2>3 DEF Lector
    <3>2. lector.vistos \cup Pagina(lector.usuario, lector.pagina) \in SUBSET Ids
      BY <2>1, <2>3 DEF Lector
    <3> QED
      BY <2>3, <3>1, <3>2 DEF Lector
  <2>5. lector' \in Lector
    BY <1>5, <2>2, <2>4 DEF LeerPagina
  <2> QED
    BY <1>5, <2>5, SinCambios DEF LeerPagina
<1>6. CASE UNCHANGED vars
  <2>1. lector' \in Lector
    BY <1>6 DEF vars, Inv, TypeOK
  <2> QED
    BY <1>6, <2>1, SinCambios DEF vars
<1> QED
  BY <1>1, <1>2, <1>3, <1>4, <1>5, <1>6, AvanzarInv, CaidaInv DEF Next

LEMMA SpecInv == Spec => []Inv
  BY Inicio, Paso, PTL DEF Spec

(* Every variable keeps its type: a notification always has one of the     *)
(* types of the enum, whatever the caller sends (persistNotification).     *)
THEOREM NotificacionesTipo == Spec => []TypeOK
<1>1. Inv => TypeOK
  BY DEF Inv
<1> QED
  BY <1>1, SpecInv, PTL

(* A push FCM accepted carries the id of a row of the history whose user   *)
(* registered the device, through failures and restarts (sendToUser,       *)
(* registerDeviceToken).                                                   *)
THEOREM PushConSuAviso == Spec => []PushAbreSuAviso
<1>1. Inv => PushAbreSuAviso
  BY DEF Inv
<1> QED
  BY <1>1, SpecInv, PTL

(* A device whose registrations did not overlap gets each notification at  *)
(* most once (registerDeviceToken looks the pair up before it inserts).    *)
THEOREM PushUnaVez == Spec => []UnPushPorDispositivo
<1>1. Inv => UnPushPorDispositivo
  BY DEF Inv
<1> QED
  BY <1>1, SpecInv, PTL

(* A send that ends without an error has left a notification of each       *)
(* recipient in the history, in their order (sendToUsers).                 *)
THEOREM TodosConAviso == Spec => CadaDestinatario
<1> DEFINE Cada ==
      \A t \in Tareas :
        LET i == tarea[t] IN
        i.pedidos # <<>> /\ tarea'[t] = Libre /\ fallas' = fallas =>
          /\ Len(i.creados) = Len(i.pedidos)
          /\ \A k \in DOMAIN i.pedidos : historial[i.creados[k]].usuario = i.pedidos[k]
<1>1. Inv /\ [Next]_vars => [Cada]_vars
  <2> SUFFICES ASSUME Inv, Next, NEW t \in Tareas, tarea[t].pedidos # <<>>,
                      tarea'[t] = Libre, fallas' = fallas
               PROVE  /\ Len(tarea[t].creados) = Len(tarea[t].pedidos)
                      /\ \A k \in DOMAIN tarea[t].pedidos :
                           historial[tarea[t].creados[k]].usuario = tarea[t].pedidos[k]
    OBVIOUS
  <2> DEFINE i == tarea[t]
  <2>1. i \in Tarea /\ EnvioBien(i, historial) /\ i.pc \in Enviando
    BY DEF Inv, TypeOK, TareasOK, EnvioBien
  <2>2. tarea \in [Tareas -> Tarea] /\ Libre.pc = "libre" /\ fallas \in Nat
    BY LibreTipo DEF Inv, TypeOK
  <2>3. i.pc # "libre" /\ tarea' # tarea
    BY <2>1, <2>2 DEF Enviando, ConAviso
  <2>4. ~Pedir(t)
    BY <2>3 DEF Pedir, PedirRegistro, PedirEnvio, PedirDifusion, NuevaPeticion, En
  <2>5. \A o \in Tareas : Pedir(o) \/ Avanzar(o) => o = t
    <3>1. \A o \in Tareas : Pedir(o) \/ Avanzar(o) =>
            \A q \in Tareas \ {o} : tarea'[q] = tarea[q]
      BY <2>2 DEF Pedir, PedirRegistro, PedirEnvio, PedirDifusion, Avanzar, BuscarToken,
                  ActualizarToken, InsertarToken, Persistir, LeerTokens, Enviar,
                  LeerDestinatarios, Terminar
    <3> QED
      BY <2>2, <2>3, <3>1
  <2>6. Avanzar(t)
    <3>1. ~Falla(t) /\ ~Caida /\ \A o \in Tareas : ~Falla(o)
      BY <2>2 DEF Falla, Caida
    <3>2. \A u \in Lectores : ~EmpezarLectura(u) /\ \A n \in DOMAIN historial : ~MarkAsRead(u, n)
      BY <2>3 DEF EmpezarLectura, MarkAsRead
    <3>3. ~LeerPagina
      BY <2>3 DEF LeerPagina
    <3> QED
      BY <2>4, <2>5, <3>1, <3>2, <3>3 DEF Next
  <2>7. i.pc \in ConAviso /\ Libre = Siguiente(i)
    <3>1. CASE Persistir(t)
      <4>1. tarea'[t].pc = "leerTokens"
        BY <2>1, <2>2, <3>1 DEF Persistir, Tarea
      <4> QED
        BY <2>2, <4>1
    <3>2. CASE LeerTokens(t)
      <4>1. tarea'[t] = IF DOMAIN TokensDe(Destinatario(i)) = {} THEN Siguiente(i)
                        ELSE [i EXCEPT !.pc = "enviar", !.tokens = TokensDe(Destinatario(i))]
        BY <2>2, <3>2 DEF LeerTokens
      <4>2. [i EXCEPT !.pc = "enviar", !.tokens = TokensDe(Destinatario(i))].pc = "enviar"
        BY <2>1 DEF Tarea
      <4>3. i.pc = "leerTokens"
        BY <3>2 DEF LeerTokens, En
      <4> QED
        BY <2>2, <4>1, <4>2, <4>3 DEF ConAviso
    <3>3. CASE Enviar(t)
      BY <2>2, <3>3 DEF Enviar, En, ConAviso
    <3>4. CASE BuscarToken(t) \/ ActualizarToken(t) \/ InsertarToken(t) \/ LeerDestinatarios(t)
      BY <2>1, <3>4 DEF BuscarToken, ActualizarToken, InsertarToken, LeerDestinatarios, En,
                        Enviando, ConAviso
    <3> QED
      BY <2>6, <3>1, <3>2, <3>3, <3>4 DEF Avanzar
  <2>8. i.atendidos + 1 = Len(i.pedidos)
    <3> SUFFICES ASSUME i.atendidos + 1 # Len(i.pedidos) PROVE FALSE
      OBVIOUS
    <3>1. Libre = [i EXCEPT !.pc = "persistir", !.atendidos = @ + 1]
      BY <2>7 DEF Siguiente
    <3>2. [i EXCEPT !.pc = "persistir", !.atendidos = @ + 1].pc = "persistir"
      BY <2>1 DEF Tarea
    <3> QED
      BY <2>2, <3>1, <3>2
  <2>9. Len(i.creados) = Len(i.pedidos)
    BY <2>1, <2>7, <2>8 DEF EnvioBien
  <2>10. DOMAIN i.pedidos = DOMAIN i.creados
    <3>1. i.pedidos \in Seq(Usuarios) /\ i.creados \in Seq(Ids)
      BY <2>1 DEF Tarea
    <3> QED
      BY <2>9, <3>1
  <2> QED
    BY <2>1, <2>9, <2>10 DEF EnvioBien
<1> QED
  BY <1>1, SpecInv, PTL DEF Spec, CadaDestinatario

-----------------------------------------------------------------------------
(* Second part: a reader and its pages.                                    *)

(* What a reader has not seen of what it started with is still unread, and *)
(* on a later page.                                                        *)
LecturaBien(l, no) ==
  l.activo =>
    /\ l.usuario \in Usuarios /\ l.pagina >= 1
    /\ ~l.marcadas =>
         \A n \in l.alInicio \ l.vistos : n \in no /\ Lugar(n, no) > GetOffset(l.pagina)

InvLectura == LecturaBien(lector, NoLeidas(lector.usuario))

(* The well-foundedness of < gives what induction would: a least element.  *)
LEMMA Minimo ==
  ASSUME NEW T \in SUBSET Nat, T # {}
  PROVE  \E m \in T : \A x \in T : m <= x
<1>1. PICK m \in T : \A y \in T : ~(<<y, m>> \in OpToRel(<, Nat))
  BY NatLessThanWellFounded, WFMin
<1>2. \A y \in T : ~(y < m)
  BY <1>1 DEF OpToRel
<1> QED
  BY <1>2

LEMMA Maximo ==
  ASSUME NEW N \in Nat, NEW T \in SUBSET (0..N), T # {}
  PROVE  \E m \in T : \A x \in T : x <= m
<1> DEFINE R == {j \in 0..N : N - j \in T}
<1>1. \A x \in T : N - x \in 0..N /\ N - (N - x) = x
  OBVIOUS
<1>2. \A x \in T : N - x \in R
  BY <1>1
<1>3. R # {}
  <2>1. PICK y \in T : TRUE
    OBVIOUS
  <2> QED
    BY <1>2, <2>1
<1>4. PICK j \in R : \A k \in R : j <= k
  <2>1. R \in SUBSET Nat
    OBVIOUS
  <2> HIDE DEF R
  <2> QED
    BY <1>3, <2>1, Minimo
<1>5. \A x \in T : j <= N - x
  BY <1>2, <1>4
<1> QED
  BY <1>5

LEMMA LugarTipo ==
  ASSUME NEW N \in Nat, NEW S \in SUBSET (0..N), NEW n \in S
  PROVE  /\ IsFiniteSet(S)
         /\ Cardinality({m \in S : m > n}) \in Nat
         /\ Lugar(n, S) = Cardinality({m \in S : m > n}) + 1
         /\ Lugar(n, S) \in Nat \ {0}
<1> DEFINE U == {m \in S : m > n}
<1>0. \A m \in S : m \in Int
  OBVIOUS
<1>1. IsFiniteSet(S)
  <2>1. IsFiniteSet(0..N)
    BY FS_Interval
  <2> QED BY <2>1, FS_Subset
<1>2. IsFiniteSet(U) /\ Cardinality(U) \in Nat
  BY <1>1, FS_Subset, FS_CardinalityType
<1>3. {m \in S : m >= n} = U \cup {n} /\ n \notin U
  <2>1. \A m \in S : m >= n <=> m > n \/ m = n
    BY <1>0
  <2>2. ~(n > n)
    BY <1>0
  <2> QED BY <2>1, <2>2
<1>4. Lugar(n, S) = Cardinality(U) + 1
  BY <1>2, <1>3, FS_AddElement DEF Lugar
<1> QED
  BY <1>1, <1>2, <1>4

(* The places of a set are all taken: 1, 2, ... up to the one of n.        *)
LEMMA LugaresSeguidos ==
  ASSUME NEW N \in Nat, NEW S \in SUBSET (0..N), NEW n \in S,
         NEW k \in 1..Lugar(n, S)
  PROVE  \E m \in S : Lugar(m, S) = k
<1> DEFINE T == {m \in S : Lugar(m, S) >= k}
<1>1. PICK a \in T : \A x \in T : x <= a
  <2>1. n \in T
    BY LugarTipo
  <2>2. T \in SUBSET (0..N)
    OBVIOUS
  <2> HIDE DEF T
  <2> QED
    BY <2>1, <2>2, Maximo
<1> DEFINE U == {m \in S : m > a}
<1>2. \A m \in S : m \in Nat
  OBVIOUS
<1>3. a \in S /\ k \in Nat \ {0} /\ Lugar(a, S) \in Nat /\ Lugar(a, S) >= k
  <2>1. a \in S /\ Lugar(a, S) >= k
    OBVIOUS
  <2>2. Lugar(a, S) \in Nat /\ Lugar(n, S) \in Nat
    BY <2>1, LugarTipo
  <2> QED BY <2>1, <2>2
<1>4. Cardinality(U) \in Nat /\ Lugar(a, S) = Cardinality(U) + 1
  BY <1>3, LugarTipo
<1>5. CASE U = {}
  BY <1>5, <1>3, <1>4, FS_EmptySet
<1>6. CASE U # {}
  <2>1. PICK b \in U : \A x \in U : b <= x
    <3>1. U \in SUBSET Nat
      BY <1>2
    <3> HIDE DEF U
    <3> QED BY <1>6, <3>1, Minimo
  <2>2. {m \in S : m >= b} = U
    <3>1. \A m \in S : m >= b <=> m > a
      BY <1>2, <1>3, <2>1
    <3> QED BY <3>1
  <2>3. Lugar(b, S) = Cardinality(U)
    BY <2>2 DEF Lugar
  <2>4. b \notin T
    BY <1>1, <2>1
  <2>5. Cardinality(U) < k
    BY <1>3, <1>4, <2>1, <2>3, <2>4
  <2> QED
    BY <1>3, <1>4, <2>5
<1> QED
  BY <1>5, <1>6

(* A page after which something is left is full.                           *)
LEMMA PaginaLlena ==
  ASSUME NEW N \in Nat, NEW S \in SUBSET (0..N), NEW o \in Nat, NEW q \in Nat,
         NEW n \in S, Lugar(n, S) > o + q
  PROVE  Cardinality({m \in S : Lugar(m, S) \in o + 1 .. o + q}) >= q
<1> DEFINE P == {m \in S : Lugar(m, S) \in o + 1 .. o + q}
           K == o + 1 .. o + q
           f == [k \in K |-> CHOOSE m \in S : Lugar(m, S) = k]
<1>1. \A k \in K : f[k] \in S /\ Lugar(f[k], S) = k
  <2> SUFFICES ASSUME NEW k \in K PROVE \E m \in S : Lugar(m, S) = k
    OBVIOUS
  <2>0. Lugar(n, S) \in Nat
    BY LugarTipo
  <2>1. k \in 1..Lugar(n, S)
    BY <2>0
  <2> QED
    BY <2>1, LugaresSeguidos
<1>2. f \in Injection(K, P)
  BY <1>1 DEF Injection, IsInjective
<1>3. IsFiniteSet(P) /\ Cardinality(P) \in Nat
  BY LugarTipo, FS_Subset, FS_CardinalityType
<1>4. Cardinality(K) = q
  BY FS_Interval
<1>5. Cardinality(K) <= Cardinality(P)
  <2> HIDE DEF P, K, f
  <2> QED BY <1>2, <1>3, FS_Injection
<1> QED
  <2> HIDE DEF P, K
  <2> QED BY <1>3, <1>4, <1>5 DEF P

(* More unread notifications only move one to a later place.               *)
LEMMA LugarCrece ==
  ASSUME NEW N \in Nat, NEW S \in SUBSET (0..N), NEW R \in SUBSET S, NEW n \in R
  PROVE  /\ Lugar(n, R) \in Nat /\ Lugar(n, S) \in Nat /\ Lugar(n, R) <= Lugar(n, S)
<1>1. IsFiniteSet(S) /\ Lugar(n, S) \in Nat
  BY LugarTipo
<1>2. R \in SUBSET (0..N)
  OBVIOUS
<1>3. Lugar(n, R) \in Nat
  BY <1>2, LugarTipo
<1>4. {m \in R : m >= n} \in SUBSET {m \in S : m >= n}
  OBVIOUS
<1>5. IsFiniteSet({m \in S : m >= n})
  BY <1>1, FS_Subset
<1> QED
  BY <1>1, <1>3, <1>4, <1>5, FS_Subset DEF Lugar

LEMMA NoLeidasTipo ==
  ASSUME Inv, NEW u
  PROVE  NoLeidas(u) \in SUBSET (0..MaxAvisos) /\ MaxAvisos \in Nat
<1>1. historial \in Seq(FilaAviso) /\ Len(historial) <= MaxAvisos /\ MaxAvisos \in Nat
  BY NotificacionesAssumption DEF Inv, TypeOK
<1> QED
  BY <1>1 DEF NoLeidas

(* The reader goes on, and what was unread is still unread.                *)
LEMMA LecturaSigue ==
  ASSUME NEW N \in Nat, NEW S \in SUBSET (0..N), NEW R \in SUBSET S, NEW l \in Lector,
         LecturaBien(l, R)
  PROVE  LecturaBien(l, S)
<1> SUFFICES ASSUME l.activo, ~l.marcadas, NEW n \in l.alInicio \ l.vistos
             PROVE  n \in S /\ Lugar(n, S) > GetOffset(l.pagina)
  BY DEF LecturaBien
<1>1. n \in R /\ Lugar(n, R) > GetOffset(l.pagina)
  BY DEF LecturaBien
<1>2. GetOffset(l.pagina) \in Int
  BY NotificacionesAssumption DEF Lector, GetOffset
<1>3. Lugar(n, R) \in Nat /\ Lugar(n, S) \in Nat /\ Lugar(n, R) <= Lugar(n, S)
  BY <1>1, LugarCrece
<1> QED
  BY <1>1, <1>2, <1>3

LEMMA LecturaPaso == Inv /\ InvLectura /\ [Next]_vars => InvLectura'
<1> SUFFICES ASSUME Inv, InvLectura, [Next]_vars PROVE InvLectura'
  OBVIOUS
<1> DEFINE u == lector.usuario
           no == NoLeidas(u)
<1>0. no \in SUBSET (0..MaxAvisos) /\ MaxAvisos \in Nat /\ lector \in Lector
  BY NoLeidasTipo DEF Inv, TypeOK
<1>1. ASSUME UNCHANGED <<historial, lector>> PROVE InvLectura'
  BY <1>1 DEF InvLectura, NoLeidas
<1>2. ASSUME NEW t \in Tareas, Persistir(t) PROVE InvLectura'
  <2>1. lector' = lector /\ Inv'
    BY <1>2, PersistirInv DEF Persistir
  <2>2. /\ historial \in Seq(FilaAviso) /\ historial' \in Seq(FilaAviso)
        /\ Len(historial') = Len(historial) + 1
        /\ \A n \in 1..Len(historial) : historial'[n] = historial[n]
    BY <1>2, <2>1, AppendProperties DEF Persistir, Inv, TypeOK
  <2>3. Len(historial') <= MaxAvisos
    BY <2>1 DEF Inv, TypeOK
  <2> DEFINE S == {n \in DOMAIN historial' : historial'[n].usuario = u /\ ~historial'[n].leido}
  <2>4. S \in SUBSET (0..MaxAvisos) /\ no \in SUBSET S
    BY <1>0, <2>2, <2>3 DEF NoLeidas
  <2>5. LecturaBien(lector, no)
    BY DEF InvLectura
  <2>6. LecturaBien(lector, S)
    <3> HIDE DEF S, no
    <3> QED
      BY <1>0, <2>4, <2>5, LecturaSigue
  <2> QED
    BY <2>1, <2>6 DEF InvLectura, NoLeidas
<1>3. ASSUME NEW w \in Lectores, EmpezarLectura(w) PROVE InvLectura'
  <2>1. /\ lector'.activo /\ lector'.usuario = w /\ lector'.pagina = 1 /\ lector'.vistos = {}
        /\ lector'.alInicio = NoLeidas(w) /\ historial' = historial /\ w \in Usuarios
    BY <1>3, NotificacionesAssumption DEF EmpezarLectura
  <2>2. NoLeidas(w) \in SUBSET (0..MaxAvisos)
    BY NoLeidasTipo
  <2>3. \A n \in NoLeidas(w) : Lugar(n, NoLeidas(w)) > GetOffset(1)
    <3>1. GetOffset(1) = 0
      BY NotificacionesAssumption DEF GetOffset
    <3>2. \A n \in NoLeidas(w) : Lugar(n, NoLeidas(w)) \in Nat \ {0}
      BY <1>0, <2>2, LugarTipo
    <3> QED
      BY <3>1, <3>2
  <2>4. NoLeidas(lector.usuario)' = NoLeidas(w)
    BY <2>1 DEF NoLeidas
  <2> QED
    BY <2>1, <2>3, <2>4 DEF InvLectura, LecturaBien
<1>4. ASSUME LeerPagina PROVE InvLectura'
  <2> DEFINE pagina == Pagina(u, lector.pagina)
             siguiente == [lector EXCEPT !.pagina = @ + 1, !.vistos = @ \cup pagina]
  <2>1. CASE lector' = LectorQuieto
    BY <2>1 DEF InvLectura, LecturaBien, LectorQuieto
  <2>2. CASE lector' = siguiente
    <3>1. /\ siguiente.activo = lector.activo /\ siguiente.usuario = u
          /\ siguiente.pagina = lector.pagina + 1 /\ siguiente.vistos = lector.vistos \cup pagina
          /\ siguiente.alInicio = lector.alInicio /\ siguiente.marcadas = lector.marcadas
      BY <1>0 DEF Lector
    <3>2. NoLeidas(lector.usuario)' = no
      BY <1>4, <2>2, <3>1 DEF NoLeidas, LeerPagina
    <3>3. lector.activo /\ lector.pagina \in Nat /\ lector.pagina >= 1 /\ u \in Usuarios
      BY <1>0, <1>4 DEF LeerPagina, InvLectura, LecturaBien, Lector
    <3>4. ASSUME ~lector.marcadas, NEW n \in lector.alInicio \ (lector.vistos \cup pagina)
          PROVE  n \in no /\ Lugar(n, no) > GetOffset(lector.pagina + 1)
      <4>1. n \in no /\ Lugar(n, no) > GetOffset(lector.pagina)
        BY <3>3, <3>4 DEF InvLectura, LecturaBien
      <4>2. Lugar(n, no) \in Nat
        BY <1>0, <4>1, LugarTipo
      <4>3. GetOffset(lector.pagina) \in Nat /\ PorPagina \in Nat
            /\ GetOffset(lector.pagina + 1) = GetOffset(lector.pagina) + PorPagina
        BY <3>3, NotificacionesAssumption DEF GetOffset
      <4>4. Lugar(n, no) \notin GetOffset(lector.pagina) + 1 .. GetOffset(lector.pagina) + PorPagina
        BY <3>4, <4>1 DEF Pagina
      <4> QED
        BY <4>1, <4>2, <4>3, <4>4
    <3>5. LecturaBien(siguiente, no)
      <4> HIDE DEF siguiente, no, pagina
      <4>1. lector.pagina + 1 >= 1
        BY <3>3
      <4> QED
        BY <3>1, <3>3, <3>4, <4>1 DEF LecturaBien
    <3> QED
      BY <2>2, <3>2, <3>5 DEF InvLectura
  <2> QED
    BY <1>4, <2>1, <2>2 DEF LeerPagina
<1>5. ASSUME NEW w \in Lectores, NEW m \in DOMAIN historial, MarkAsRead(w, m) PROVE InvLectura'
  <2>1. /\ lector' = [lector EXCEPT !.marcadas = @ \/ (lector.activo /\ lector.usuario = w)]
        /\ historial[m].usuario = w /\ historial \in Seq(FilaAviso)
        /\ historial' = [historial EXCEPT ![m].leido = TRUE]
    BY <1>5 DEF MarkAsRead, Inv, TypeOK
  <2>2. /\ lector'.activo = lector.activo /\ lector'.usuario = u /\ lector'.pagina = lector.pagina
        /\ lector'.vistos = lector.vistos /\ lector'.alInicio = lector.alInicio
        /\ ~lector'.marcadas => ~lector.marcadas /\ ~(lector.activo /\ u = w)
    BY <1>0, <2>1 DEF Lector
  <2>3. ASSUME u # w PROVE NoLeidas(lector.usuario)' = no
    <3>1. DOMAIN historial' = DOMAIN historial
      BY <2>1
    <3>2. \A n \in DOMAIN historial : historial'[n].usuario = historial[n].usuario
      BY <2>1
    <3>3. \A n \in DOMAIN historial : n # m => historial'[n] = historial[n]
      BY <2>1
    <3> QED
      BY <2>1, <2>2, <2>3, <3>1, <3>2, <3>3 DEF NoLeidas
  <2>4. LecturaBien(lector, no)
    BY DEF InvLectura
  <2> QED
    BY <2>2, <2>3, <2>4 DEF InvLectura, LecturaBien
<1>6. ASSUME NEW t \in Tareas, Pedir(t) \/ Falla(t) \/ (Avanzar(t) /\ ~Persistir(t)) PROVE InvLectura'
  BY <1>1, <1>6 DEF Pedir, PedirRegistro, PedirEnvio, PedirDifusion, Falla, Avanzar, BuscarToken,
                    ActualizarToken, InsertarToken, LeerTokens, Enviar, LeerDestinatarios
<1>7. CASE Caida \/ UNCHANGED vars
  BY <1>1, <1>7 DEF Caida, vars
<1> QED
  BY <1>2, <1>3, <1>4, <1>5, <1>6, <1>7 DEF Next

LEMMA SpecLectura == Spec => []InvLectura
<1>1. Init => InvLectura
  BY DEF Init, InvLectura, LecturaBien, LectorQuieto
<1> QED
  BY <1>1, LecturaPaso, SpecInv, PTL DEF Spec

(* A reader that goes through the unread history gets everything that was  *)
(* unread when it started, whatever arrives meanwhile, unless some of its  *)
(* notifications are marked meanwhile (findPageByUsuarioId, markAsRead).   *)
THEOREM LecturaSinHuecos == Spec => LecturaCompleta
<1> DEFINE Completa ==
      lector.activo /\ lector' = LectorQuieto /\ ~lector.marcadas =>
        lector.alInicio \subseteq lector.vistos \cup Pagina(lector.usuario, lector.pagina)
<1>1. Inv /\ InvLectura /\ [Next]_vars => [Completa]_vars
  <2> SUFFICES ASSUME Inv, InvLectura, Next, lector.activo, lector' = LectorQuieto, ~lector.marcadas,
                      NEW n \in lector.alInicio \ lector.vistos
               PROVE  n \in Pagina(lector.usuario, lector.pagina)
    OBVIOUS
  <2> DEFINE no == NoLeidas(lector.usuario)
             o == GetOffset(lector.pagina)
             pagina == {m \in no : Lugar(m, no) \in o + 1 .. o + PorPagina}
  <2>1. lector \in Lector /\ no \in SUBSET (0..MaxAvisos) /\ MaxAvisos \in Nat
    BY NoLeidasTipo DEF Inv, TypeOK
  <2>2. ~lector'.activo
    BY DEF LectorQuieto
  <2>3. LeerPagina
    BY <2>1, <2>2 DEF Next, Pedir, PedirRegistro, PedirEnvio, PedirDifusion, Falla, Avanzar,
          BuscarToken, ActualizarToken, InsertarToken, LeerTokens, Enviar, LeerDestinatarios,
          Persistir, Caida, EmpezarLectura, MarkAsRead, Lector
  <2>4. Pagina(lector.usuario, lector.pagina) = pagina
    BY DEF Pagina
  <2>5. Cardinality(pagina) < PorPagina
    <3>1. [lector EXCEPT !.pagina = @ + 1,
                         !.vistos = @ \cup Pagina(lector.usuario, lector.pagina)].activo = lector.activo
      BY <2>1 DEF Lector
    <3> QED
      BY <2>2, <2>3, <2>4, <3>1 DEF LeerPagina
  <2>6. n \in no /\ Lugar(n, no) > o
    BY DEF InvLectura, LecturaBien
  <2>7. PorPagina \in Nat /\ o \in Nat /\ Lugar(n, no) \in Nat
    <3>1. lector.pagina \in Nat /\ lector.pagina >= 1
      BY <2>1 DEF Lector, InvLectura, LecturaBien
    <3>2. o \in Nat /\ PorPagina \in Nat
      BY <3>1, NotificacionesAssumption DEF GetOffset
    <3> QED
      BY <2>1, <2>6, <3>2, LugarTipo
  <2>8. ~(Lugar(n, no) > o + PorPagina)
    <3>1. IsFiniteSet(pagina) /\ Cardinality(pagina) \in Nat
      <4>1. IsFiniteSet(no)
        BY <2>1, <2>6, LugarTipo
      <4> QED
        BY <4>1, FS_Subset, FS_CardinalityType
    <3>2. Lugar(n, no) > o + PorPagina => Cardinality(pagina) >= PorPagina
      <4> HIDE DEF no, o
      <4> QED
        BY <2>1, <2>6, <2>7, PaginaLlena
    <3> QED
      BY <2>5, <2>7, <3>1, <3>2
  <2> QED
    BY <2>4, <2>6, <2>7, <2>8
<1> QED
  BY <1>1, SpecInv, SpecLectura, PTL DEF Spec, LecturaCompleta

=============================================================================
