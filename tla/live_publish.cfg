SPECIFICATION SiteSpec
CONSTANTS
  p1 = p1
  p2 = p2
  p3 = p3
  m1 = m1
  m2 = m2
  c1 = c1
  c2 = c2
  s1 = s1
  i1 = i1
  i2 = i2
  j1 = j1
  v1 = v1
  d1 = d1
  k1 = k1
  g1 = g1
  home = home
  settings = settings
  sla = sla
  t1 = t1
  t2 = t2
  en = en
  tr = tr
  Products = {p1, p2, p3}
  Manufacturers = {m1, m2}
  Categories = {c1, c2}
  Series = {s1}
  Industries = {i1, i2}
  Projects = {j1}
  Services = {v1}
  Guides = {g1}
  Datasheets = {d1}
  Certificates = {k1}
  Home = home
  Settings = settings
  Sla = sla
  Texts = {t1, t2}
  Seeded = t1
  Links <- SeedLinks
  Later = {s1, sla, m2, i2, p3}
  Absent = Absent
  Gone = Gone
  NoEntry = NoEntry
  MaxEdits = 2
  Locales = {en, tr}
  DefaultLocale = en
  Translated = {t1}
  Prose = {t1}
INVARIANTS
  EditsGoLive
  UnpublishedIsHidden
  SitemapAgrees
CHECK_DEADLOCK FALSE
