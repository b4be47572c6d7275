----------------------------- MODULE Funciones ------------------------------
(***************************************************************************)
(* What a plan lets its users do: the catalogue of functions that every    *)
(* process seeds in the database when it starts (SuscripcionService), and  *)
(* the cloud backups, the operations a function of the plan opens.         *)
(*                                                                         *)
(* Two processes may start at once, and one may start while another        *)
(* serves: a rolling update does both.                                     *)
(***************************************************************************)
EXTENDS Integers, Sequences, FiniteSets

CONSTANTS
  Replicas,   \* processes of the API
  Entornos,   \* environments a process may be started with, see Entorno
  Planes,     \* plan codes
  Sembrados,  \* BASICO, PRO, EQUIPO: those the seed inserts
  Codigos,    \* PLAN_FUNCION_CODIGO
  BackupNube, \* PLAN_FUNCION_CODIGO.BACKUP_NUBE
  Catalogo,   \* PLAN_FUNCIONES_POR_PLAN; {} for a plan it does not have
  Banderas,   \* the functions permiteAjusteMasivoPrecio and -Stock stand for
  Usuarios, Tareas,
  Cargas, Malformadas, \* payloads; those without a v, exportedAt or tables of the right kind
  Nada,
  MaxLista,                     \* take: 100
  MaxPeticiones, MaxFallas      \* bounds: requests, failures

(* faltan: what is missing, of the secrets and of the production variables;*)
(* corto: a secret has fewer than 16 characters; prohibido: DB_SYNCHRONIZE *)
(* or ALLOW_SUBSCRIPTION_MOCK_CHECKOUT; prueba: Jest, or validation off.   *)
Entorno == [produccion: BOOLEAN, prueba: BOOLEAN, faltan: SUBSET {"secretos", "produccion"},
            corto: BOOLEAN, prohibido: BOOLEAN]

ASSUME FuncionesAssumption ==
  /\ Entornos \subseteq Entorno
  /\ Sembrados \subseteq Planes /\ Sembrados # {}
  /\ BackupNube \in Codigos
  /\ Malformadas \subseteq Cargas
  /\ Catalogo \in [Planes -> SUBSET Codigos]
  /\ Banderas \in [Planes -> SUBSET Codigos]
  /\ MaxLista \in Nat \ {0} /\ MaxPeticiones \in Nat /\ MaxFallas \in Nat
  /\ Nada \notin Planes \cup Usuarios \cup Cargas \cup Replicas

VARIABLES
  entorno,    \* what each process is started with
  planes,     \* rows of sub_02_cat_plan
  rel,        \* rows of sub_05_rel_plan_funcion: the functions of each plan
  replica,    \* each process
  plan,       \* the plan of each user's subscription
  backups,    \* sub_04_cab_backup_usuario; a row's id is its place
  tarea,      \* backup requests in flight
  respondidos,\* history: the backups whose request was answered
  peticiones, fallas

vars == <<entorno, planes, rel, replica, plan, backups, tarea, respondidos, peticiones, fallas>>
usos == <<plan, backups, tarea, respondidos, peticiones>>
semilla == <<planes, rel>>

Fases == {"caida", "contar", "sembrar", "leerPlanes", "leerFunciones", "guardarFunciones",
          "escuchando"}
Replica == [fase: Fases, pendientes: SUBSET Planes, plan: Planes \cup {Nada},
            missing: SUBSET Codigos]
Caida == [fase |-> "caida", pendientes |-> {}, plan |-> Nada, missing |-> {}]

Pasos == {"libre", "comprobar", "guardar", "responder"}
Tarea == [pc: Pasos, en: Replicas \cup {Nada}, usuario: Usuarios \cup {Nada},
          carga: Cargas \cup {Nada}, id: Nat]
Libre == [pc |-> "libre", en |-> Nada, usuario |-> Nada, carga |-> Nada, id |-> 0]

(* An empty database, or one an earlier version has seeded with fewer      *)
(* functions.                                                              *)
Init ==
  /\ entorno \in [Replicas -> Entornos]
  /\ planes \in {{}, Sembrados}
  /\ rel \in [Planes -> SUBSET Codigos]
  /\ \A p \in Planes : rel[p] \subseteq (IF p \in planes THEN Catalogo[p] ELSE {})
  /\ replica = [r \in Replicas |-> Caida]
  /\ plan = [u \in Usuarios |-> Nada]
  /\ backups = <<>>
  /\ tarea = [t \in Tareas |-> Libre]
  /\ respondidos = {}
  /\ peticiones = 0 /\ fallas = 0

-----------------------------------------------------------------------------
(* bootstrap: validateRequiredAuthEnv, onModuleInit, listen.               *)

ValidateProductionEnv(e) == "produccion" \notin e.faltan /\ ~e.prohibido

ValidateRequiredAuthEnv(e) ==
  \/ e.prueba
  \/ /\ "secretos" \notin e.faltan /\ ~e.corto
     /\ e.produccion => ValidateProductionEnv(e)

Fase(r, f) == replica[r].fase = f

Arrancar(r) ==
  /\ Fase(r, "caida")
  /\ ValidateRequiredAuthEnv(entorno[r])
  /\ replica' = [replica EXCEPT ![r].fase = "contar"]
  /\ UNCHANGED <<entorno, semilla, usos, fallas>>

(* Mutant of HaySemilla: only a full catalogue counts as seeded.           *)
HaySemillaCompleta == planes = Planes

HaySemilla == planes # {}

Contar(r) ==
  /\ Fase(r, "contar")
  /\ replica' = [replica EXCEPT ![r].fase = IF HaySemilla THEN "leerPlanes" ELSE "sembrar"]
  /\ UNCHANGED <<entorno, semilla, usos, fallas>>

(* One transaction; a code that another process has inserted is a          *)
(* duplicate key, and main.ts exits.                                       *)
SeedPlanesIfEmpty(r) ==
  /\ Fase(r, "sembrar")
  /\ IF planes \cap Sembrados = {}
     THEN /\ planes' = planes \cup Sembrados
          /\ replica' = [replica EXCEPT ![r].fase = "leerPlanes"]
     ELSE /\ replica' = [replica EXCEPT ![r] = Caida]
          /\ UNCHANGED planes
  /\ UNCHANGED <<entorno, rel, usos, fallas>>

LeerPlanes(r) ==
  /\ Fase(r, "leerPlanes")
  /\ replica' = [replica EXCEPT ![r].fase = "leerFunciones", ![r].pendientes = planes]
  /\ UNCHANGED <<entorno, semilla, usos, fallas>>

(* Mutant of Faltantes: a plan that has functions has them all.            *)
FaltantesSiNinguna(p) == IF rel[p] # {} THEN {} ELSE Catalogo[p]

Faltantes(p) == Catalogo[p] \ rel[p]

LeerFunciones(r, p) ==
  LET i == replica[r]
      missing == Faltantes(p)
  IN
  /\ i.fase = "leerFunciones"
  /\ p \in i.pendientes
  /\ replica' = [replica EXCEPT ![r] =
       [fase |-> IF missing = {} THEN "leerFunciones" ELSE "guardarFunciones",
        pendientes |-> i.pendientes \ {p}, plan |-> p, missing |-> missing]]
  /\ UNCHANGED <<entorno, semilla, usos, fallas>>

(* Mutant of Guardadas: a row that fails leaves the one before it stored.  *)
GuardadasDeAUna(missing) == {CHOOSE f \in missing : TRUE}

(* save() writes the rows in one transaction.                              *)
Guardadas(missing) == missing

SeedPlanFuncionesFromCatalog(r) ==
  LET i == replica[r] IN
  /\ Fase(r, "guardarFunciones")
  /\ IF rel[i.plan] \cap i.missing = {}
     THEN /\ rel' = [rel EXCEPT ![i.plan] = @ \cup Guardadas(i.missing)]
          /\ replica' = [replica EXCEPT ![r].fase = "leerFunciones"]
     ELSE /\ replica' = [replica EXCEPT ![r] = Caida]
          /\ UNCHANGED rel
  /\ UNCHANGED <<entorno, planes, usos, fallas>>

Escuchar(r) ==
  /\ Fase(r, "leerFunciones")
  /\ replica[r].pendientes = {}
  /\ replica' = [replica EXCEPT ![r] = [Caida EXCEPT !.fase = "escuchando"]]
  /\ UNCHANGED <<entorno, semilla, usos, fallas>>

(* The process dies, or a query of its start fails; its requests with it.  *)
Caer(r) ==
  /\ ~Fase(r, "caida")
  /\ fallas < MaxFallas
  /\ fallas' = fallas + 1
  /\ replica' = [replica EXCEPT ![r] = Caida]
  /\ tarea' = [t \in Tareas |-> IF tarea[t].en = r THEN Libre ELSE tarea[t]]
  /\ UNCHANGED <<entorno, semilla, plan, backups, respondidos, peticiones>>

(* A plan that the seed does not insert is inserted by hand.               *)
AgregarPlan(p) ==
  /\ p \notin planes \cup Sembrados
  /\ planes # {}
  /\ planes' = planes \cup {p}
  /\ UNCHANGED <<entorno, rel, replica, usos, fallas>>

-----------------------------------------------------------------------------
(* What users see of it.                                                   *)

FuncionesHabilitadasParaPlan(p) ==
  IF rel[p] # {} THEN rel[p]
  ELSE IF Catalogo[p] # {} THEN Catalogo[p] ELSE Banderas[p]

AssertUsuarioTieneFuncion(u, f) == plan[u] # Nada /\ f \in FuncionesHabilitadasParaPlan(plan[u])

(* A payment, or the default plan of a new account (Suscripcion).          *)
AsignarPlan(u, p) ==
  /\ \E r \in Replicas : Fase(r, "escuchando")
  /\ p \in planes
  /\ p # plan[u]
  /\ peticiones < MaxPeticiones
  /\ peticiones' = peticiones + 1
  /\ plan' = [plan EXCEPT ![u] = p]
  /\ UNCHANGED <<entorno, semilla, replica, backups, tarea, respondidos, fallas>>

SincronizarBackup(t, r, u, c) ==
  /\ tarea[t].pc = "libre"
  /\ Fase(r, "escuchando")
  /\ peticiones < MaxPeticiones
  /\ peticiones' = peticiones + 1
  /\ tarea' = [tarea EXCEPT ![t] = [pc |-> "comprobar", en |-> r, usuario |-> u,
                                    carga |-> c, id |-> 0]]
  /\ UNCHANGED <<entorno, semilla, replica, plan, backups, respondidos, fallas>>

(* 403 without the function.                                               *)
Comprobar(t) ==
  /\ tarea[t].pc = "comprobar"
  /\ tarea' = IF AssertUsuarioTieneFuncion(tarea[t].usuario, BackupNube)
              THEN [tarea EXCEPT ![t].pc = "guardar"] ELSE [tarea EXCEPT ![t] = Libre]
  /\ UNCHANGED <<entorno, semilla, replica, plan, backups, respondidos, peticiones, fallas>>

(* 400                                                                     *)
AssertBackupPayloadShape(t) ==
  /\ tarea[t].pc = "guardar"
  /\ tarea[t].carga \in Malformadas
  /\ tarea' = [tarea EXCEPT ![t] = Libre]
  /\ UNCHANGED <<entorno, semilla, replica, plan, backups, respondidos, peticiones, fallas>>

(* Mutant of IdNuevo: the id is read before the row is saved.              *)
IdAnterior == Len(backups)

IdNuevo == Len(backups) + 1

FilaBackup == [usuario: Usuarios, payloadJson: Cargas]

SincronizarBackupDesdeApp(t) ==
  /\ tarea[t].pc = "guardar"
  /\ tarea[t].carga \notin Malformadas
  /\ backups' = Append(backups, [usuario |-> tarea[t].usuario, payloadJson |-> tarea[t].carga])
  /\ tarea' = [tarea EXCEPT ![t].pc = "responder", ![t].id = IdNuevo]
  /\ UNCHANGED <<entorno, semilla, replica, plan, respondidos, peticiones, fallas>>

Responder(t) ==
  /\ tarea[t].pc = "responder"
  /\ respondidos' = respondidos \cup {[id |-> tarea[t].id, usuario |-> tarea[t].usuario,
                                       carga |-> tarea[t].carga]}
  /\ tarea' = [tarea EXCEPT ![t] = Libre]
  /\ UNCHANGED <<entorno, semilla, replica, plan, backups, peticiones, fallas>>

DeUsuario(u) == {n \in DOMAIN backups : backups[n].usuario = u}

(* Mutant of PrimerosHasta: the oldest first.                              *)
PrimerosHastaAsc(ids) == {n \in ids : Cardinality({m \in ids : m <= n}) <= MaxLista}

(* order: createdAt DESC, take: those with less than MaxLista before them. *)
PrimerosHasta(ids) == {n \in ids : Cardinality({m \in ids : m >= n}) <= MaxLista}

ListBackupsUsuario(u) ==
  IF AssertUsuarioTieneFuncion(u, BackupNube) THEN PrimerosHasta(DeUsuario(u)) ELSE {}

ObtenerBackupJsonParaUsuario(u, id) ==
  IF AssertUsuarioTieneFuncion(u, BackupNube) /\ id \in DeUsuario(u)
  THEN backups[id].payloadJson ELSE Nada

-----------------------------------------------------------------------------
Arranque(r) ==
  \/ Arrancar(r) \/ Contar(r) \/ SeedPlanesIfEmpty(r) \/ LeerPlanes(r)
  \/ (\E p \in Planes : LeerFunciones(r, p)) \/ SeedPlanFuncionesFromCatalog(r) \/ Escuchar(r)

Avanzar(t) == Comprobar(t) \/ AssertBackupPayloadShape(t) \/ SincronizarBackupDesdeApp(t) \/ Responder(t)

Next ==
  \/ \E r \in Replicas : Arranque(r) \/ Caer(r)
  \/ \E p \in Planes : AgregarPlan(p) \/ \E u \in Usuarios : AsignarPlan(u, p)
  \/ \E t \in Tareas :
       Avanzar(t) \/ \E r \in Replicas, u \in Usuarios, c \in Cargas : SincronizarBackup(t, r, u, c)

(* A process that has exited is started again, and its start runs.         *)
Spec == Init /\ [][Next]_vars /\ \A r \in Replicas : WF_vars(Arranque(r))

-----------------------------------------------------------------------------
TypeOK ==
  /\ entorno \in [Replicas -> Entornos]
  /\ planes \subseteq Planes
  /\ rel \in [Planes -> SUBSET Codigos]
  /\ replica \in [Replicas -> Replica]
  /\ plan \in [Usuarios -> planes \cup {Nada}]
  /\ backups \in Seq(FilaBackup)
  /\ tarea \in [Tareas -> Tarea]
  /\ respondidos \subseteq [id: DOMAIN backups, usuario: Usuarios, carga: Cargas]
  /\ peticiones \in 0..MaxPeticiones /\ fallas \in 0..MaxFallas

(* "Asegura [...] todas las funciones del catálogo por plan": whoever wins *)
(* the race to seed, as soon as one process serves every seeded plan is    *)
(* there with every function.                                              *)
CatalogoCompleto ==
  (\E r \in Replicas : Fase(r, "escuchando")) =>
    \A p \in Sembrados : p \in planes /\ Catalogo[p] \subseteq rel[p]

(* A process that starts never takes from a plan, not even for a moment,   *)
(* a function its users were seeing: the first row stored for a plan       *)
(* switches it from the catalogue in the code to the one in the database.  *)
FuncionesNoSePierden ==
  [][\A p \in planes : FuncionesHabilitadasParaPlan(p) \subseteq FuncionesHabilitadasParaPlan(p)']_vars

(* A process with a valid environment ends up serving for good: the one    *)
(* that loses the race exits, and finds the work done when started again.  *)
ReplicaEscucha ==
  \A r \in Replicas : ValidateRequiredAuthEnv(entorno[r]) => <>[]Fase(r, "escuchando")

MasNuevos(b) == {n \in DeUsuario(b.usuario) : n > b.id}

(* A backup the app was told is stored can be fetched by its user, with    *)
(* what was sent, whenever the plan includes backups, and is in the list   *)
(* until MaxLista newer ones push it out.                                  *)
BackupSeRecupera ==
  \A b \in respondidos : AssertUsuarioTieneFuncion(b.usuario, BackupNube) =>
    /\ ObtenerBackupJsonParaUsuario(b.usuario, b.id) = b.carga
    /\ Cardinality(MasNuevos(b)) < MaxLista => b.id \in ListBackupsUsuario(b.usuario)

=============================================================================
