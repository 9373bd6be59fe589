----------------------------- MODULE Inventario -----------------------------
(* The inventory of the monitored network: five tables, and the requests of  *)
(* administrators that change them (Dispositivo.php, Administrador.php,      *)
(* permisosAdministracion.php, Restricciones.php, BitacoraSucesos.php, each  *)
(* one process), through the procedures of AdministracionServiciosRed.sql.   *)
(* A request asks first, one SELECT at a time, and calls its procedure       *)
(* afterwards.  Nothing opens a transaction: every statement, those of a     *)
(* procedure included, is committed by itself, and the requests interleave   *)
(* between any two of them.                                                  *)
EXTENDS Naturals, Sequences

CONSTANTS Dispositivos, Administradores,
          Alertas,      \* the rest of the key of a row of restricciones
          Fechas,       \* the two times in the key of a row of bitacoraSucesos
          Peticiones    \* processes that serve requests

VARIABLES filas,        \* the rows of all tables
          activas,      \* devices to be monitored, a column of dispositivo
          paso, orden,  \* of a request: where it is, what it was asked for
          turno,        \* of a request: queries or statements it has done
          estorbo       \* another request changed the tables since it began

tablasVars == <<filas, activas>>
peticionVars == <<paso, orden, turno, estorbo>>

-----------------------------------------------------------------------------
(* Tables: a row is its table and its key; the other columns are not told    *)
(* apart.                                                                    *)

Tablas == {"dispositivo", "administrador", "permisos", "restricciones",
           "bitacora"}

Columnas == [ip |-> Dispositivos, email |-> Administradores,
             alerta |-> Alertas, fecha |-> Fechas]

Llave == [dispositivo   |-> {"ip"},
          administrador |-> {"email"},
          permisos      |-> {"ip", "email"},
          restricciones |-> {"ip", "alerta"},
          bitacora      |-> {"ip", "alerta", "fecha"}]

Referencia == [dispositivo   |-> {},
               administrador |-> {},
               permisos      |-> {"administrador", "dispositivo"},
               restricciones |-> {"dispositivo"},
               bitacora      |-> {"restricciones"}]

Filas == [tabla : Tablas,
          llave : UNION {[Llave[t] -> UNION {Columnas[c] : c \in Llave[t]}] :
                         t \in Tablas}]

EsFila(x) == /\ x.tabla \in Tablas
             /\ DOMAIN x.llave = Llave[x.tabla]
             /\ \A c \in Llave[x.tabla] : x.llave[c] \in Columnas[c]

\* The row of table t whose key is made of columns of x.
Referida(x, t) == [tabla |-> t, llave |-> [c \in Llave[t] |-> x.llave[c]]]

Padres(x) == {Referida(x, t) : t \in Referencia[x.tabla]}

\* The WHERE of a DELETE: the columns of x's key have x's values.
Coincide(y, x) == \A c \in DOMAIN x.llave :
                    c \in DOMAIN y.llave /\ y.llave[c] = x.llave[c]

Admite(x) == x \notin filas /\ Padres(x) \subseteq filas

Alcance(x, t) == {y \in filas : y.tabla = t /\ Coincide(y, x)}

\* ON DELETE NO ACTION: no row left refers to one that goes.
Suelta(bajas) == \A y \in filas \ bajas : Padres(y) \cap bajas = {}

-----------------------------------------------------------------------------
(* What a request asks before it acts, and the tables that its procedure     *)
(* deletes from.  A permission is inserted without asking whether it is      *)
(* there (the check is written as a property that does not exist), an event  *)
(* without asking for an equal one.                                          *)

Preguntas(o) ==
  IF o.oper # "insertar" THEN <<[tabla |-> o.fila.tabla, hay |-> TRUE]>>
  ELSE CASE o.fila.tabla \in {"dispositivo", "administrador"} ->
              <<[tabla |-> o.fila.tabla, hay |-> FALSE]>>
         [] o.fila.tabla = "permisos" ->
              <<[tabla |-> "administrador", hay |-> TRUE],
                [tabla |-> "dispositivo", hay |-> TRUE]>>
         [] o.fila.tabla = "restricciones" ->
              <<[tabla |-> "restricciones", hay |-> FALSE],
                [tabla |-> "dispositivo", hay |-> TRUE]>>
         [] OTHER -> <<[tabla |-> "restricciones", hay |-> TRUE]>>

BajasDispositivoPrimero ==
  [dispositivo   |-> <<"bitacora", "restricciones", "dispositivo", "permisos">>,
   administrador |-> <<"permisos", "administrador">>,
   permisos      |-> <<"permisos">>,
   restricciones |-> <<"bitacora", "restricciones">>,
   bitacora      |-> <<"bitacora">>]

Bajas ==
  [dispositivo   |-> <<"bitacora", "restricciones", "permisos", "dispositivo">>,
   administrador |-> <<"permisos", "administrador">>,
   permisos      |-> <<"permisos">>,
   restricciones |-> <<"bitacora", "restricciones">>,
   bitacora      |-> <<"bitacora">>]

Ordenes ==
  {o \in [oper : {"insertar", "actualizar", "eliminar"}, fila : Filas,
          activa : BOOLEAN] :
     /\ EsFila(o.fila)
     /\ o.fila.tabla = "bitacora" => o.oper # "actualizar"
     /\ o.activa => o.fila.tabla = "dispositivo" /\ o.oper # "eliminar"}

EnConsulta == {"pregunta", "insertar", "actualizar", "eliminar"}
Ninguna == [oper |-> "ninguna"]

\* Request p goes on at a, having done n - 1 of what is done there; the others
\* that are among their statements notice a change of the tables.
Va(p, a, n) ==
  /\ paso' = [paso EXCEPT ![p] = a]
  /\ turno' = [turno EXCEPT ![p] = n]
  /\ orden' = [orden EXCEPT ![p] = IF a = "libre" THEN Ninguna ELSE @]
  /\ estorbo' = [q \in Peticiones |->
       /\ paso'[q] \in EnConsulta \cup {"fallida"}
       /\ estorbo[q] \/ (q # p /\ paso[q] \in EnConsulta /\ filas' # filas)]

-----------------------------------------------------------------------------
Llega(p) ==                    \* a request that passes the checks of its form
  /\ paso[p] \in {"libre", "fallida"}
  /\ paso' = [paso EXCEPT ![p] = "pregunta"]
  /\ turno' = [turno EXCEPT ![p] = 1]
  /\ \E o \in Ordenes : orden' = [orden EXCEPT ![p] = o]
  /\ estorbo' = [estorbo EXCEPT ![p] = FALSE]
  /\ UNCHANGED tablasVars

Pregunta(p) ==                 \* one comprobarExistencia
  LET o == orden[p]
      q == Preguntas(o)[turno[p]]
      sigue == (Referida(o.fila, q.tabla) \in filas) = q.hay
      ultima == turno[p] = Len(Preguntas(o))
  IN /\ paso[p] = "pregunta"
     /\ UNCHANGED tablasVars
     /\ IF ~sigue THEN Va(p, "libre", 1)
        ELSE IF ultima THEN Va(p, o.oper, 1)
        ELSE Va(p, "pregunta", turno[p] + 1)

Falla(p) == UNCHANGED tablasVars /\ Va(p, "fallida", 1)

Inserta(p) ==
  LET x == orden[p].fila
  IN /\ paso[p] = "insertar"
     /\ IF Admite(x)
        THEN /\ filas' = filas \cup {x}
             /\ activas' = IF orden[p].activa THEN activas \cup {x.llave["ip"]}
                                              ELSE activas
             /\ Va(p, IF x.tabla = "dispositivo" THEN "carpeta" ELSE "libre", 1)
        ELSE Falla(p)

Actualiza(p) ==      \* an UPDATE that finds no row any more succeeds as well
  LET x == orden[p].fila
  IN /\ paso[p] = "actualizar"
     /\ activas' = IF x \in filas /\ x.tabla = "dispositivo"
                   THEN (activas \ {x.llave["ip"]})
                        \cup {d \in {x.llave["ip"]} : orden[p].activa}
                   ELSE activas
     /\ UNCHANGED filas
     /\ Va(p, "libre", 1)

Elimina(p) ==                  \* one DELETE of the procedure
  LET x == orden[p].fila
      bajas == Alcance(x, Bajas[x.tabla][turno[p]])
      ultima == turno[p] = Len(Bajas[x.tabla])
  IN /\ paso[p] = "eliminar"
     /\ IF Suelta(bajas)
        THEN /\ filas' = filas \ bajas
             /\ activas' = {d \in activas : \A y \in bajas :
                              y.tabla = "dispositivo" => y.llave["ip"] # d}
             /\ IF ~ultima THEN Va(p, "eliminar", turno[p] + 1)
                ELSE Va(p, IF x.tabla = "dispositivo" THEN "limpia"
                           ELSE "libre", 1)
        ELSE Falla(p)

InventarioInit ==
  /\ filas = {} /\ activas = {}
  /\ paso = [p \in Peticiones |-> "libre"]
  /\ orden = [p \in Peticiones |-> Ninguna]
  /\ turno = [p \in Peticiones |-> 1]
  /\ estorbo = [p \in Peticiones |-> FALSE]

Pide(p) == Llega(p) \/ Pregunta(p) \/ Inserta(p) \/ Actualiza(p) \/ Elimina(p)
-----------------------------------------------------------------------------
\* Inserted without asking: the key may be there already.
SinPreguntar(o) == o.oper = "insertar" /\ o.fila.tabla \in {"permisos", "bitacora"}

\* The database refuses a statement only to a request that another one crossed
\* after its first query: the queries and the order of the DELETEs foresee
\* everything else, for every table but the two that are inserted blindly
\* (Dispositivo.php:75-96, AdministracionServiciosRed.sql:135-141).
FallaSoloPorOtra ==
  \A p \in Peticiones :
     paso[p] = "fallida" => estorbo[p] \/ SinPreguntar(orden[p])
=============================================================================
