\* Two tabs, two saves in flight.  Of the fields, two switches, a text that a
\* modal saves, and every text that is typed into the form.
SPECIFICATION Spec
CONSTANTS
  Tabs = {t1, t2}
  Slots = {1, 2}
  Watched = {"ssl_enabled", "home_bulletin", "panel_port", "panel_domain", "bound_account",
             "panel_theme", "panel_alias", "default_site_folder", "timezone_city",
             "authorized_ip", "password_expire"}
INVARIANTS SettingsTypeOK SyncedIsStored
PROPERTY NobodyElseIsUndone
